---- MODULE Spec2Model ----
\* Model of the irc-wrapper backend: the persisted store (sessions, chats,
\* chat history), the /chat request pipeline (session check, strategy
\* dispatch, quota validation, chat lookup, streaming generator) and the
\* session endpoints, with one slot per HTTP request in flight.
EXTENDS Integers, Sequences, FiniteSets, TLC

VARIABLES
    sessions,   \* table ambio_ai_user_session, in insertion order
    chats,      \* table ambio_ai_chat, in insertion order
    history,    \* table ambio_ai_chat_history, in insertion order (created_at)
    req         \* the HTTP requests in flight, one record per slot

vars == <<sessions, chats, history, req>>

\* ---------------------------------------------------------------- bounds
MaxMsgs == 2        \* rows of the history table (Spec)
MaxChats == 1       \* rows of the chat table (Spec)
MaxTokens == 2      \* tokens of one provider stream (Spec)
MaxReq == 2         \* requests handled at the same time (SpecRace)
MaxQuotaMsgs == 5   \* rows of the history table (SpecQuota)
MaxSessions == 3    \* rows of the session table (SpecSession)

ReqIds == 1..MaxReq

\* ------------------------------------------------------------- constants
\* None: a missing header, a missing chat_id of the body, a NULL column. Row
\* identifiers (uuid4 strings in the code) are the positive integers, in the
\* order the rows were inserted.
None == 0
\* None where a class or a string is expected.
NoClass == "None"
\* An absent mode (choose_strategy(None)).
NoMode == <<"None">>

SIGNED_IN_USER == "SIGNED_IN_USER"
NON_SIGNED_IN_USER == "NON_SIGNED_IN_USER"
ReferenceType == {SIGNED_IN_USER, NON_SIGNED_IN_USER}

USER == "USER"
ASSISTANT == "ASSISTANT"
SUMMARY == "SUMMARY"
ChatRole == {USER, ASSISTANT, SUMMARY}

Range(s) == {s[i] : i \in 1..Len(s)}

\* Mode strings are sequences of characters, so that strip() and lower() are
\* computed and not assumed.
S_chat == <<"c", "h", "a", "t">>
S_image == <<"i", "m", "a", "g", "e">>
S_image_analysis == <<"i", "m", "a", "g", "e", "_", "a", "n", "a", "l", "y", "s", "i", "s">>
S_CHAT_padded == <<" ", "C", "h", "A", "T", " ">>
S_video == <<"v", "i", "d", "e", "o">>
S_unknown == <<"u", "n", "k", "n", "o", "w", "n">>
S_https == <<"h", "t", "t", "p", "s">>
S_HTTPS == <<"H", "T", "T", "P", "S">>
S_http == <<"h", "t", "t", "p">>
S_ftp == <<"f", "t", "p">>

Whitespace == {" ", "\t", "\n"}

lower_char(c) ==
    CASE c = "A" -> "a" [] c = "C" -> "c" [] c = "H" -> "h" [] c = "T" -> "t"
      [] c = "I" -> "i" [] c = "M" -> "m" [] c = "G" -> "g" [] c = "E" -> "e"
      [] c = "V" -> "v" [] c = "D" -> "d" [] c = "O" -> "o"
      [] c = "P" -> "p" [] c = "S" -> "s"
      [] OTHER -> c

lower(s) == [i \in 1..Len(s) |-> lower_char(s[i])]

RECURSIVE lstrip(_)
lstrip(s) == IF s # <<>> /\ Head(s) \in Whitespace THEN lstrip(Tail(s)) ELSE s

RECURSIVE rstrip(_)
rstrip(s) ==
    IF s # <<>> /\ s[Len(s)] \in Whitespace THEN rstrip(SubSeq(s, 1, Len(s) - 1)) ELSE s

strip(s) == rstrip(lstrip(s))

\* ------------------------------------------------------------- strategies
ChatStrategy == "ChatStrategy"
ImageStrategy == "ImageStrategy"
ImageAnalysisStrategy == "ImageAnalysisStrategy"
BadStrategy == "BadStrategy"

\* purpose() of the three registered classes, in registration order.
Registered == <<ChatStrategy, ImageAnalysisStrategy, ImageStrategy>>

purpose(cls) ==
    CASE cls = ChatStrategy -> {S_chat}
      [] cls = ImageAnalysisStrategy -> {S_image_analysis}
      [] cls = ImageStrategy -> {S_image}
      [] OTHER -> {}

\* STRATEGY_REGISTRY after register_strategies: the last class registered
\* under a name owns it.
STRATEGY_REGISTRY(m) ==
    LET owners == {i \in 1..Len(Registered) : m \in purpose(Registered[i])}
    IN  IF owners = {} THEN NoClass
        ELSE Registered[CHOOSE i \in owners : \A j \in owners : j <= i]

\* A variant of choose_strategy that does not trim the mode.
choose_strategy_NoStrip(mode) ==
    LET m == lower(IF mode = NoMode \/ mode = <<>> THEN S_chat ELSE mode)
        cls == STRATEGY_REGISTRY(m)
    IN  IF cls = NoClass
        THEN [cls |-> BadStrategy, invalid_mode |-> IF m = <<>> THEN S_unknown ELSE m]
        ELSE [cls |-> cls, invalid_mode |-> <<>>]

\* choose_strategy: <<class, invalid_mode>>.
choose_strategy(mode) ==
    LET m == lower(strip(IF mode = NoMode \/ mode = <<>> THEN S_chat ELSE mode))
        cls == STRATEGY_REGISTRY(m)
    IN  IF cls = NoClass
        THEN [cls |-> BadStrategy, invalid_mode |-> IF m = <<>> THEN S_unknown ELSE m]
        ELSE [cls |-> cls, invalid_mode |-> <<>>]

\* The mode string a strategy writes into the messages it persists.
mode_of(cls) ==
    CASE cls = ChatStrategy -> "chat"
      [] cls = ImageAnalysisStrategy -> "image_analysis"
      [] cls = ImageStrategy -> "image"
      [] OTHER -> "none"

\* ------------------------------------------------------------- validators
\* Image bytes are sequences of numbers 0..255.
SIG_JPEG == <<255, 216, 255>>
SIG_PNG == <<137, 80, 78, 71, 13, 10, 26, 10>>
SIG_GIF87a == <<71, 73, 70, 56, 55, 97>>
SIG_GIF89a == <<71, 73, 70, 56, 57, 97>>
SIG_RIFF == <<82, 73, 70, 70>>
SIG_WEBP == <<87, 69, 66, 80>>

\* IMAGE_MAGIC_BYTES, in the order the dict is iterated.
IMAGE_MAGIC_BYTES ==
    << <<SIG_JPEG, "image/jpeg">>, <<SIG_PNG, "image/png">>, <<SIG_GIF87a, "image/gif">>,
       <<SIG_GIF89a, "image/gif">>, <<SIG_RIFF, "image/webp">> >>

startswith(data, prefix) ==
    Len(data) >= Len(prefix) /\ SubSeq(data, 1, Len(prefix)) = prefix

\* data[a:b] of Python, 0-based, clipped to the length.
slice(data, a, b) ==
    SubSeq(data, a + 1, IF b < Len(data) THEN b ELSE Len(data))

ValueError == "ValueError"

\* validate_image_content: the MIME type, or ValueError.
validate_image_content(data) ==
    LET hits == {i \in 1..Len(IMAGE_MAGIC_BYTES) : startswith(data, IMAGE_MAGIC_BYTES[i][1])}
    IN  IF hits # {}
        THEN IMAGE_MAGIC_BYTES[CHOOSE i \in hits : \A j \in hits : i <= j][2]
        ELSE IF slice(data, 0, 4) = SIG_RIFF /\ Len(data) > 12 /\ slice(data, 8, 12) = SIG_WEBP
             THEN "image/webp"
             ELSE ValueError

\* An address getaddrinfo returns, by the class ipaddress gives it.
\* "unparsable" is an address string ip_address() rejects.
AddrClasses ==
    {"public", "private", "loopback", "link_local", "reserved", "multicast", "unparsable"}

\* _is_private_ip
is_private_ip(addr) ==
    IF addr = "unparsable" THEN FALSE
    ELSE addr \in {"private", "loopback", "link_local", "reserved", "multicast"}

\* The resolver: what socket.getaddrinfo answers for a hostname, the
\* addresses in order, or gaierror.
getaddrinfo(hostname) ==
    CASE hostname = "example.com" -> [gaierror |-> FALSE, addrs |-> <<"public">>]
      [] hostname = "127.0.0.1" -> [gaierror |-> FALSE, addrs |-> <<"loopback">>]
      [] hostname = "10.0.0.1" -> [gaierror |-> FALSE, addrs |-> <<"private">>]
      [] hostname = "localhost" -> [gaierror |-> FALSE, addrs |-> <<"loopback", "loopback">>]
      [] hostname = "rebind.example" -> [gaierror |-> FALSE, addrs |-> <<"public", "private">>]
      [] OTHER -> [gaierror |-> TRUE, addrs |-> <<>>]

\* The messages of the ValueError validate_image_url raises.
ERR_HTTPS == "Only HTTPS URLs are allowed for image_url."
ERR_HOSTNAME == "Invalid URL: missing hostname."
ERR_PRIVATE == "URL resolves to a private/internal IP address."
ERR_RESOLVE(hostname) == "Could not resolve hostname: " \o hostname

\* A variant of validate_image_url that looks at the first resolved address
\* only.
validate_image_url_FirstAddr(url) ==
    IF lower(url.scheme) # S_https THEN ERR_HTTPS
    ELSE IF url.hostname = "" THEN ERR_HOSTNAME
    ELSE LET resolved_ips == getaddrinfo(url.hostname)
         IN  IF resolved_ips.gaierror THEN ERR_RESOLVE(url.hostname)
             ELSE IF is_private_ip(resolved_ips.addrs[1])
                  THEN ERR_PRIVATE
                  ELSE "ok"

\* validate_image_url on the parsed URL [scheme, hostname]: "ok", or the
\* message of the ValueError it raises.
validate_image_url(url) ==
    IF lower(url.scheme) # S_https THEN ERR_HTTPS
    ELSE IF url.hostname = "" THEN ERR_HOSTNAME
    ELSE LET resolved_ips == getaddrinfo(url.hostname)
         IN  IF resolved_ips.gaierror THEN ERR_RESOLVE(url.hostname)
             ELSE IF \E i \in 1..Len(resolved_ips.addrs) : is_private_ip(resolved_ips.addrs[i])
                  THEN ERR_PRIVATE
                  ELSE "ok"

\* Request body values of image_url and image_base64.
NoUrl == [kind |-> "none", scheme |-> <<>>, hostname |-> ""]
Url(scheme, hostname) == [kind |-> "url", scheme |-> scheme, hostname |-> hostname]
\* image_base64: absent; a string starting "data:"; or another string, which
\* base64.b64decode(validate=True) either rejects or decodes to bytes.
NoB64 == [kind |-> "none", valid |-> FALSE, decoded |-> <<>>]
DataUrl == [kind |-> "data_url", valid |-> FALSE, decoded |-> <<>>]
B64(valid, decoded) == [kind |-> "raw", valid |-> valid, decoded |-> decoded]

\* A variant of the checks that takes any payload that is valid base64.
stream_image_analysis_checks_AnyPayload(image_url, image_base64) ==
    IF (image_url.kind # "none") = (image_base64.kind # "none") THEN ValueError
    ELSE IF image_url.kind # "none"
         THEN (IF validate_image_url(image_url) = "ok" THEN "ok" ELSE ValueError)
    ELSE IF image_base64.kind = "data_url" THEN "ok"
    ELSE IF ~image_base64.valid THEN ValueError
    ELSE "ok"

\* The checks of stream_image_analysis before the provider request: "ok" or
\* ValueError.
stream_image_analysis_checks(image_url, image_base64) ==
    IF (image_url.kind # "none") = (image_base64.kind # "none") THEN ValueError
    ELSE IF image_url.kind # "none"
         THEN (IF validate_image_url(image_url) = "ok" THEN "ok" ELSE ValueError)
    ELSE IF image_base64.kind = "data_url" THEN "ok"
    ELSE IF ~image_base64.valid THEN ValueError
    ELSE IF validate_image_content(slice(image_base64.decoded, 0, 16)) = ValueError
         THEN ValueError
         ELSE "ok"

\* ChatReq._validate_mode_and_image_inputs: TRUE when the body is accepted.
validate_mode_and_image_inputs(body) ==
    LET m == lower(strip(IF body.mode = <<>> THEN S_chat ELSE body.mode))
    IN  IF m = S_chat THEN TRUE
        ELSE IF m = S_image_analysis
             THEN (body.image_url.kind # "none") # (body.image_base64.kind # "none")
             ELSE TRUE

\* ------------------------------------------------------------------ store
\* A variant of the lookup that does not filter on is_active.
get_active_session_AnyRow(x_session_id) ==
    {s \in Range(sessions) : s.session_id = x_session_id}

\* get_active_session: the active rows with this session id (at most one,
\* session_id is the primary key).
get_active_session(x_session_id) ==
    {s \in Range(sessions) : s.session_id = x_session_id /\ s.is_active}

\* A variant of the select that does not filter on the reference kind.
existing_session_AnyKind(unique_reference_id, reference_type) ==
    LET hits == {i \in 1..Len(sessions) :
                    /\ sessions[i].unique_reference_id = unique_reference_id
                    /\ sessions[i].is_active}
    IN  IF hits = {} THEN None
        ELSE sessions[CHOOSE i \in hits : \A j \in hits : i <= j].session_id

\* A variant of the select that does not filter on is_active.
existing_session_AnyState(unique_reference_id, reference_type) ==
    LET hits == {i \in 1..Len(sessions) :
                    /\ sessions[i].unique_reference_id = unique_reference_id
                    /\ sessions[i].reference_type = reference_type}
    IN  IF hits = {} THEN None
        ELSE sessions[CHOOSE i \in hits : \A j \in hits : i <= j].session_id

\* The select of create_*_session: the first active row of this identity.
existing_session(unique_reference_id, reference_type) ==
    LET hits == {i \in 1..Len(sessions) :
                    /\ sessions[i].unique_reference_id = unique_reference_id
                    /\ sessions[i].reference_type = reference_type
                    /\ sessions[i].is_active}
    IN  IF hits = {} THEN None
        ELSE sessions[CHOOSE i \in hits : \A j \in hits : i <= j].session_id

\* The count without the join on the chat's owner.
count_all_sessions(session_id, mode) ==
    Cardinality({i \in 1..Len(history) :
        /\ history[i].role = USER
        /\ history[i].mode = mode})

\* count_user_messages_for_session_by_mode: history joined with chats.
count_user_messages_for_session_by_mode(session_id, mode) ==
    Cardinality({i \in 1..Len(history) :
        /\ history[i].role = USER
        /\ history[i].mode = mode
        /\ \E j \in 1..Len(chats) :
              /\ chats[j].chat_id = history[i].chat_id
              /\ chats[j].session_id = session_id})

\* get_chat_history_by_chat_id: the chat's rows ordered by created_at.
RECURSIVE filter_chat(_, _)
filter_chat(h, chat_id) ==
    IF h = <<>> THEN <<>>
    ELSE IF Head(h).chat_id = chat_id
         THEN <<Head(h)>> \o filter_chat(Tail(h), chat_id)
         ELSE filter_chat(Tail(h), chat_id)

get_chat_history_by_chat_id(chat_id) == filter_chat(history, chat_id)

\* The row create_chat_message inserts; its id is fresh.
new_message(chat_id, role, mode, content, previous_message_id) ==
    [chat_history_id |-> Len(history) + 1,
     chat_id |-> chat_id,
     previous_message_id |-> previous_message_id,
     role |-> role,
     mode |-> mode,
     content |-> content]

create_chat_message(chat_id, role, mode, content, previous_message_id) ==
    Append(history, new_message(chat_id, role, mode, content, previous_message_id))

\* The select of get_or_create_chat: the id of the chat row, or None.
existing_chat(chat_id) ==
    IF chat_id # None /\ \E j \in 1..Len(chats) : chats[j].chat_id = chat_id
    THEN chat_id ELSE None

owner_of(chat_id) ==
    (CHOOSE c \in Range(chats) : c.chat_id = chat_id).session_id

\* ------------------------------------------------------------------ texts
\* A text is a sequence of symbols: 0 is the prompt of a request, k > 0 the
\* k-th token of a provider stream, -1 the stub payload of the image mode.
Prompt == <<0>>
stub_response == <<-1>>
Token(k) == <<k>>

\* --------------------------------------------------------------- requests
NoBody == [mode |-> <<>>, chat_id |-> None, image_url |-> NoUrl, image_base64 |-> NoB64]
Body(mode, chat_id, image_url, image_base64) ==
    [mode |-> mode, chat_id |-> chat_id, image_url |-> image_url, image_base64 |-> image_base64]

\* A free slot. pc is the position of the handler; the fields after status are
\* the handler's local variables; out is the chunks forwarded to the caller,
\* asked the number of tokens requested from the provider, drained whether the
\* provider stream ended, asst_msg and made_chat the rows the request wrote
\* besides user_msg, n_chats and n_msgs the sizes of the tables when the
\* request arrived, steps the steps it took, in order, result the rows a
\* history endpoint returned, logged the entries it wrote to the audit log.
Idle ==
    [pc |-> "idle", op |-> "none", x_session_id |-> None, body |-> NoBody,
     unique_reference_id |-> "", reference_type |-> "",
     status |-> 0, outcome |-> "", session_id |-> None,
     strategy |-> NoClass, invalid_mode |-> <<>>, used |-> -1,
     active_chat |-> None, user_msg |-> None, model_messages |-> <<>>,
     full |-> <<>>,
     out |-> <<>>, asked |-> 0, drained |-> FALSE, asst_msg |-> None,
     made_chat |-> None, n_chats |-> 0, n_msgs |-> 0, steps |-> <<>>,
     result |-> <<>>, logged |-> 0, x_chat_id |-> None]

InFlight(r) == req[r].pc \notin {"idle", "done"}

\* The request slots are interchangeable: a request takes the lowest free one.
FreeSlot(r) ==
    /\ req[r].pc = "idle"
    /\ \A q \in ReqIds : q < r => req[q].pc # "idle"

Finish(status, outcome, rec) ==
    [rec EXCEPT !.pc = "done", !.status = status, !.outcome = outcome]

\* ---------------------------------------------------------- POST /session
\* create_signed_in_session / create_anonymous_session up to the select: an
\* active row of the identity is returned, otherwise the insert follows.
CreateSessionSelect(r, unique_reference_id, reference_type) ==
    /\ FreeSlot(r)
    /\ LET existing == existing_session(unique_reference_id, reference_type)
           rec == [Idle EXCEPT !.op = "create_session",
                               !.unique_reference_id = unique_reference_id,
                               !.reference_type = reference_type,
                               !.steps = <<"select">>]
       IN  req' = [req EXCEPT ![r] =
               IF existing # None
               THEN Finish(200, "ok", [rec EXCEPT !.session_id = existing])
               ELSE [rec EXCEPT !.pc = "insert_session"]]
    /\ UNCHANGED <<sessions, chats, history>>

\* db.add(sess); commit: a new active row with a fresh session id.
CreateSessionInsert(r, cap) ==
    /\ req[r].pc = "insert_session"
    /\ Len(sessions) < cap
    /\ LET sess == [session_id |-> Len(sessions) + 1,
                    unique_reference_id |-> req[r].unique_reference_id,
                    reference_type |-> req[r].reference_type,
                    is_active |-> TRUE]
       IN  /\ sessions' = Append(sessions, sess)
           /\ req' = [req EXCEPT ![r] =
                  Finish(200, "ok", [req[r] EXCEPT !.session_id = sess.session_id,
                                                      !.steps = Append(@, "insert")])]
    /\ UNCHANGED <<chats, history>>

\* hashlib.sha256(raw).hexdigest(): one digest per input, none shared.
sha256_hexdigest(raw) == "sha256:" \o raw

\* _generate_fingerprint; a missing header is the empty string.
generate_fingerprint(user_agent, accept_language, client_ip) ==
    sha256_hexdigest(user_agent \o "|" \o accept_language \o "|" \o client_ip)

\* create_session: the user id of a valid bearer token, else the x-user-id
\* header, else the fingerprint of the request headers ("" is absent).
CreateSession(r, jwt_user_id, x_user_id, user_agent, accept_language, client_ip) ==
    IF jwt_user_id # "" THEN CreateSessionSelect(r, jwt_user_id, SIGNED_IN_USER)
    ELSE IF x_user_id # "" THEN CreateSessionSelect(r, x_user_id, SIGNED_IN_USER)
    ELSE CreateSessionSelect(r, generate_fingerprint(user_agent, accept_language, client_ip),
                             NON_SIGNED_IN_USER)

\* ---------------------------------------------------------- DELETE /session
\* A variant of delete_session that looks the session up whether active or not.
DeleteSessionCheck_AnyRow(r, x_session_id) ==
    /\ FreeSlot(r)
    /\ LET rec == [Idle EXCEPT !.op = "delete_session", !.x_session_id = x_session_id]
       IN  req' = [req EXCEPT ![r] =
               IF x_session_id = None THEN Finish(400, "missing_header", rec)
               ELSE IF ~\E i \in 1..Len(sessions) : sessions[i].session_id = x_session_id
                    THEN Finish(401, "invalid_session", rec)
                    ELSE [rec EXCEPT !.pc = "invalidate"]]
    /\ UNCHANGED <<sessions, chats, history>>

DeleteSessionCheck(r, x_session_id) ==
    /\ FreeSlot(r)
    /\ LET rec == [Idle EXCEPT !.op = "delete_session", !.x_session_id = x_session_id]
       IN  req' = [req EXCEPT ![r] =
               IF x_session_id = None THEN Finish(400, "missing_header", rec)
               ELSE IF get_active_session(x_session_id) = {}
                    THEN Finish(401, "invalid_session", rec)
                    ELSE [rec EXCEPT !.pc = "invalidate"]]
    /\ UNCHANGED <<sessions, chats, history>>

\* invalidate_session: the row of this id, active or not, is set inactive.
invalidate_session(session_id) ==
    [i \in 1..Len(sessions) |->
        IF sessions[i].session_id = session_id
        THEN [sessions[i] EXCEPT !.is_active = FALSE]
        ELSE sessions[i]]

DeleteSessionInvalidate(r) ==
    /\ req[r].pc = "invalidate"
    /\ sessions' = invalidate_session(req[r].x_session_id)
    /\ req' = [req EXCEPT ![r] = Finish(200, "ok", req[r])]
    /\ UNCHANGED <<chats, history>>

\* Variants of ChatStrategy.run_validation: strict comparisons; ceilings one
\* higher; the signed-in ceiling for every reference kind.
ChatStrategy_run_validation_Strict(session_id, reference_type) ==
    LET used == count_user_messages_for_session_by_mode(session_id, "chat")
    IN  [ok |-> IF reference_type = SIGNED_IN_USER THEN used < 3 ELSE used < 1,
         used |-> used]

ChatStrategy_run_validation_Loose(session_id, reference_type) ==
    LET used == count_user_messages_for_session_by_mode(session_id, "chat")
    IN  [ok |-> IF reference_type = SIGNED_IN_USER THEN used <= 4 ELSE used <= 2,
         used |-> used]

ChatStrategy_run_validation_OneCeiling(session_id, reference_type) ==
    LET used == count_user_messages_for_session_by_mode(session_id, "chat")
    IN  [ok |-> used <= 3, used |-> used]

\* A variant of ImageStrategy.run_validation that counts the image_analysis
\* messages.
ImageStrategy_run_validation_SharedMode(session_id, reference_type) ==
    IF reference_type # SIGNED_IN_USER THEN [ok |-> FALSE, used |-> -1]
    ELSE LET used == count_user_messages_for_session_by_mode(session_id, "image_analysis")
         IN  [ok |-> used < 3, used |-> used]

\* --------------------------------------------------------- GET /chat-history
\* A sequence in reverse order (order_by created_at desc).
reversed(s) == [i \in 1..Len(s) |-> s[Len(s) + 1 - i]]

RECURSIVE filter_session(_, _)
filter_session(c, session_id) ==
    IF c = <<>> THEN <<>>
    ELSE IF Head(c).session_id = session_id
         THEN <<Head(c)>> \o filter_session(Tail(c), session_id)
         ELSE filter_session(Tail(c), session_id)

\* list_chats_for_session: the session's chats, newest first (no chat is ever
\* archived).
list_chats_for_session(session_id) == reversed(filter_session(chats, session_id))

\* list_history: the whole handler.
ListHistory(r, x_session_id) ==
    /\ FreeSlot(r)
    /\ LET rec == [Idle EXCEPT !.op = "list_history", !.x_session_id = x_session_id,
                               !.n_chats = Len(chats), !.n_msgs = Len(history)]
           listed == list_chats_for_session(x_session_id)
       IN  req' = [req EXCEPT ![r] =
               IF x_session_id = None THEN Finish(400, "missing_header", rec)
               ELSE IF get_active_session(x_session_id) = {}
                    THEN Finish(401, "invalid_session", rec)
                    ELSE Finish(200, "ok",
                                [rec EXCEPT !.result =
                                    [i \in 1..Len(listed) |-> listed[i].chat_id]])]
    /\ UNCHANGED <<sessions, chats, history>>

\* offset(offset).limit(page_size) on a sequence of rows.
page_of(rows, page, page_size) ==
    LET offset == (page - 1) * page_size
        last == IF offset + page_size < Len(rows) THEN offset + page_size ELSE Len(rows)
    IN  SubSeq(rows, offset + 1, last)

\* A variant of get_chat_history that looks the chat up by its id only.
GetChatHistory_NoOwnerCheck(r, x_session_id, chat_id, page, page_size) ==
    /\ FreeSlot(r)
    /\ LET rec == [Idle EXCEPT !.op = "get_chat_history", !.x_session_id = x_session_id,
                               !.body = Body(<<>>, chat_id, NoUrl, NoB64),
                               !.n_chats = Len(chats), !.n_msgs = Len(history)]
           any_chat == {c \in Range(chats) : c.chat_id = chat_id}
           msgs == page_of(reversed(get_chat_history_by_chat_id(chat_id)), page, page_size)
       IN  req' = [req EXCEPT ![r] =
               IF x_session_id = None THEN Finish(400, "missing_header", rec)
               ELSE IF get_active_session(x_session_id) = {}
                    THEN Finish(401, "invalid_session", rec)
               ELSE IF any_chat = {} THEN Finish(404, "Chat not found.", rec)
               ELSE Finish(200, "ok",
                           [rec EXCEPT !.result =
                               [i \in 1..Len(msgs) |->
                                   [role |-> msgs[i].role, mode |-> msgs[i].mode,
                                    content |-> msgs[i].content]]])]
    /\ UNCHANGED <<sessions, chats, history>>

\* get_chat_history: the whole handler, page and page_size within their
\* declared ranges.
GetChatHistory(r, x_session_id, chat_id, page, page_size) ==
    /\ FreeSlot(r)
    /\ LET rec == [Idle EXCEPT !.op = "get_chat_history", !.x_session_id = x_session_id,
                               !.body = Body(<<>>, chat_id, NoUrl, NoB64),
                               !.n_chats = Len(chats), !.n_msgs = Len(history)]
           chat == {c \in Range(chats) : c.chat_id = chat_id /\ c.session_id = x_session_id}
           any_chat == {c \in Range(chats) : c.chat_id = chat_id}
           msgs == page_of(reversed(get_chat_history_by_chat_id(chat_id)), page, page_size)
       IN  req' = [req EXCEPT ![r] =
               IF x_session_id = None THEN Finish(400, "missing_header", rec)
               ELSE IF get_active_session(x_session_id) = {}
                    THEN Finish(401, "invalid_session", rec)
               ELSE IF chat = {}
                    THEN Finish(404, "Chat not found.",
                                [rec EXCEPT !.logged = IF any_chat # {} THEN 1 ELSE 0])
               ELSE Finish(200, "ok",
                           [rec EXCEPT !.result =
                               [i \in 1..Len(msgs) |->
                                   [role |-> msgs[i].role, mode |-> msgs[i].mode,
                                    content |-> msgs[i].content]]])]
    /\ UNCHANGED <<sessions, chats, history>>

\* -------------------------------------------------------------- POST /chat
\* run_validation of each strategy: [ok, used]; used is the ledger count the
\* strategy read, -1 when it read none.
ChatStrategy_run_validation(session_id, reference_type) ==
    LET used == count_user_messages_for_session_by_mode(session_id, "chat")
    IN  [ok |-> IF reference_type = SIGNED_IN_USER THEN used <= 3 ELSE used <= 1,
         used |-> used]

ImageAnalysisStrategy_run_validation(session_id, reference_type) ==
    IF reference_type # SIGNED_IN_USER THEN [ok |-> FALSE, used |-> -1]
    ELSE LET used == count_user_messages_for_session_by_mode(session_id, "image_analysis")
         IN  [ok |-> used < 3, used |-> used]

ImageStrategy_run_validation(session_id, reference_type) ==
    IF reference_type # SIGNED_IN_USER THEN [ok |-> FALSE, used |-> -1]
    ELSE LET used == count_user_messages_for_session_by_mode(session_id, "image")
         IN  [ok |-> used < 3, used |-> used]

BadStrategy_run_validation(session_id, reference_type) == [ok |-> TRUE, used |-> -1]

run_validation(cls, session_id, reference_type) ==
    CASE cls = ChatStrategy -> ChatStrategy_run_validation(session_id, reference_type)
      [] cls = ImageAnalysisStrategy ->
            ImageAnalysisStrategy_run_validation(session_id, reference_type)
      [] cls = ImageStrategy -> ImageStrategy_run_validation(session_id, reference_type)
      [] OTHER -> BadStrategy_run_validation(session_id, reference_type)

\* chat(), lines 27-32, after the body passed ChatReq's validator: the header
\* and the session are checked.
ChatBegin(r, x_session_id, body) ==
    /\ FreeSlot(r)
    /\ LET rec == [Idle EXCEPT !.op = "chat", !.x_session_id = x_session_id, !.body = body,
                               !.n_chats = Len(chats), !.n_msgs = Len(history)]
           sess == get_active_session(x_session_id)
       IN  req' = [req EXCEPT ![r] =
               IF ~validate_mode_and_image_inputs(body)
               THEN Finish(422, "invalid_body", rec)
               ELSE IF x_session_id = None THEN Finish(400, "missing_header", rec)
               ELSE IF sess = {} THEN Finish(401, "invalid_session", rec)
               ELSE [rec EXCEPT !.pc = "validate",
                                !.reference_type = (CHOOSE s \in sess : TRUE).reference_type,
                                !.steps = <<"session">>]]
    /\ UNCHANGED <<sessions, chats, history>>

\* A variant of chat() that fetches or creates the chat before it validates.
ChatValidate_ChatFirst(r) ==
    /\ req[r].pc = "validate"
    /\ LET strategy == choose_strategy(req[r].body.mode)
           v == run_validation(strategy.cls, req[r].x_session_id, req[r].reference_type)
           fresh == existing_chat(req[r].body.chat_id) = None
           rec == [req[r] EXCEPT !.strategy = strategy.cls,
                                 !.invalid_mode = strategy.invalid_mode,
                                 !.used = v.used,
                                 !.made_chat = IF fresh THEN Len(chats) + 1 ELSE None,
                                 !.steps = Append(@, "validate")]
       IN  /\ chats' = IF fresh
                       THEN Append(chats, [chat_id |-> Len(chats) + 1,
                                           session_id |-> req[r].x_session_id])
                       ELSE chats
           /\ req' = [req EXCEPT ![r] =
                  IF ~v.ok THEN Finish(403, "quota", rec)
                  ELSE [rec EXCEPT !.pc = "get_chat"]]
    /\ UNCHANGED <<sessions, history>>

\* chat(), lines 34-37: dispatch and run_validation.
ChatValidate(r) ==
    /\ req[r].pc = "validate"
    /\ LET strategy == choose_strategy(req[r].body.mode)
           v == run_validation(strategy.cls, req[r].x_session_id, req[r].reference_type)
           rec == [req[r] EXCEPT !.strategy = strategy.cls,
                                 !.invalid_mode = strategy.invalid_mode,
                                 !.used = v.used,
                                 !.steps = Append(@, "validate")]
       IN  req' = [req EXCEPT ![r] =
               IF ~v.ok THEN Finish(403, "quota", rec)
               ELSE [rec EXCEPT !.pc = "get_chat"]]
    /\ UNCHANGED <<sessions, chats, history>>

\* A variant of get_or_create_chat that continues the latest chat of the
\* session when the request names no chat.
ChatGetOrCreate_ContinuesOwn(r, cap) ==
    /\ req[r].pc = "get_chat"
    /\ LET existing == existing_chat(req[r].body.chat_id)
           mine == {j \in 1..Len(chats) : chats[j].session_id = req[r].x_session_id}
       IN  IF existing # None \/ mine # {}
           THEN /\ chats' = chats
                /\ req' = [req EXCEPT ![r] =
                       [@ EXCEPT !.pc = "gen", !.status = 200,
                                 !.active_chat = IF existing # None THEN existing
                                                 ELSE chats[CHOOSE j \in mine :
                                                              \A k \in mine : k <= j].chat_id,
                                 !.x_chat_id = IF existing # None THEN existing
                                               ELSE chats[CHOOSE j \in mine :
                                                            \A k \in mine : k <= j].chat_id,
                                 !.steps = Append(@, "chat")]]
           ELSE /\ Len(chats) < cap
                /\ chats' = Append(chats, [chat_id |-> Len(chats) + 1,
                                           session_id |-> req[r].x_session_id])
                /\ req' = [req EXCEPT ![r] = [@ EXCEPT !.pc = "gen", !.status = 200,
                                                       !.active_chat = Len(chats) + 1,
                                                       !.made_chat = Len(chats) + 1,
                                                       !.x_chat_id = Len(chats) + 1,
                                                       !.steps = Append(@, "chat")]]
    /\ UNCHANGED <<sessions, history>>

\* chat(), lines 39-54: get_or_create_chat, then the streaming response is
\* returned with the X-Chat-Id header; the generator has not started.
ChatGetOrCreate(r, cap) ==
    /\ req[r].pc = "get_chat"
    /\ LET existing == existing_chat(req[r].body.chat_id)
       IN  IF existing # None
           THEN /\ chats' = chats
                /\ req' = [req EXCEPT ![r] = [@ EXCEPT !.pc = "gen", !.status = 200,
                                                       !.active_chat = existing,
                                                       !.x_chat_id = existing,
                                                       !.steps = Append(@, "chat")]]
           ELSE /\ Len(chats) < cap
                /\ chats' = Append(chats, [chat_id |-> Len(chats) + 1,
                                           session_id |-> req[r].x_session_id])
                /\ req' = [req EXCEPT ![r] = [@ EXCEPT !.pc = "gen", !.status = 200,
                                                       !.active_chat = Len(chats) + 1,
                                                       !.made_chat = Len(chats) + 1,
                                                       !.x_chat_id = Len(chats) + 1,
                                                       !.steps = Append(@, "chat")]]
    /\ UNCHANGED <<sessions, history>>

\* A variant that links the USER message to the latest message of the chat.
PersistUser_LinksPrevious(r, cap) ==
    /\ req[r].pc = "gen"
    /\ req[r].strategy \in {ChatStrategy, ImageAnalysisStrategy, ImageStrategy}
    /\ Len(history) < cap
    /\ LET rows == {i \in 1..Len(history) : history[i].chat_id = req[r].active_chat}
       IN  history' = create_chat_message(req[r].active_chat, USER, mode_of(req[r].strategy),
                                          Prompt,
                                          IF rows = {} THEN None
                                          ELSE CHOOSE i \in rows : \A j \in rows : j <= i)
    /\ req' = [req EXCEPT ![r] =
           [@ EXCEPT !.pc = IF req[r].strategy = ImageStrategy THEN "stub" ELSE "history",
                     !.user_msg = Len(history) + 1,
                     !.steps = Append(@, "user")]]
    /\ UNCHANGED <<sessions, chats>>

\* generate_response of ChatStrategy, ImageAnalysisStrategy and ImageStrategy
\* up to the first commit: the USER message, with no previous message.
PersistUser(r, cap) ==
    /\ req[r].pc = "gen"
    /\ req[r].strategy \in {ChatStrategy, ImageAnalysisStrategy, ImageStrategy}
    /\ Len(history) < cap
    /\ history' = create_chat_message(req[r].active_chat, USER, mode_of(req[r].strategy),
                                      Prompt, None)
    /\ req' = [req EXCEPT ![r] =
           [@ EXCEPT !.pc = IF req[r].strategy = ImageStrategy THEN "stub" ELSE "history",
                     !.user_msg = Len(history) + 1,
                     !.steps = Append(@, "user")]]
    /\ UNCHANGED <<sessions, chats>>

\* The conversation each strategy builds from the chat's history.
RECURSIVE ChatStrategy_model_messages(_)
ChatStrategy_model_messages(h) ==
    IF h = <<>> THEN <<>>
    ELSE IF Head(h).role = USER
         THEN <<[role |-> "user", content |-> Head(h).content]>>
                  \o ChatStrategy_model_messages(Tail(h))
    ELSE IF Head(h).role = ASSISTANT
         THEN <<[role |-> "assistant", content |-> Head(h).content]>>
                  \o ChatStrategy_model_messages(Tail(h))
    ELSE ChatStrategy_model_messages(Tail(h))

RECURSIVE ImageAnalysisStrategy_prior(_)
ImageAnalysisStrategy_prior(h) ==
    IF h = <<>> THEN <<>>
    ELSE IF Head(h).role = USER /\ Head(h).mode = "chat"
         THEN <<[role |-> "user", content |-> Head(h).content]>>
                  \o ImageAnalysisStrategy_prior(Tail(h))
    ELSE IF Head(h).role = ASSISTANT /\ Head(h).mode = "chat"
         THEN <<[role |-> "assistant", content |-> Head(h).content]>>
                  \o ImageAnalysisStrategy_prior(Tail(h))
    ELSE ImageAnalysisStrategy_prior(Tail(h))

\* get_chat_history_by_chat_id and the loop over it.
ReadHistory(r) ==
    /\ req[r].pc = "history"
    /\ LET h == get_chat_history_by_chat_id(req[r].active_chat)
       IN  req' = [req EXCEPT ![r] =
               [@ EXCEPT !.pc = "call",
                         !.model_messages =
                             IF req[r].strategy = ChatStrategy
                             THEN ChatStrategy_model_messages(h)
                             ELSE ImageAnalysisStrategy_prior(h),
                         !.steps = Append(@, "history")]]
    /\ UNCHANGED <<sessions, chats, history>>

\* The first step of the loop over llm.stream_chat / llm.stream_image_analysis:
\* the input checks of stream_image_analysis, then the provider request, which
\* the provider accepts or fails.
CallProvider(r, provider_ok) ==
    /\ req[r].pc = "call"
    /\ LET checks == IF req[r].strategy = ImageAnalysisStrategy
                     THEN stream_image_analysis_checks(req[r].body.image_url,
                                                       req[r].body.image_base64)
                     ELSE "ok"
       IN  req' = [req EXCEPT ![r] =
               IF checks = ValueError THEN Finish(200, "input_error", req[r])
               ELSE IF ~provider_ok
                    THEN Finish(200, "provider_error",
                                [req[r] EXCEPT !.steps = Append(@, "call")])
                    ELSE [req[r] EXCEPT !.pc = "stream", !.asked = 1,
                                        !.steps = Append(@, "call")]]
    /\ UNCHANGED <<sessions, chats, history>>

\* A variant of the loop that accumulates the token and asks for the next one
\* without yielding.
StreamToken_Buffers(r, cap) ==
    /\ req[r].pc = "stream"
    /\ Len(req[r].full) < cap
    /\ LET token == Token(Len(req[r].full) + 1)
       IN  req' = [req EXCEPT ![r] =
               [@ EXCEPT !.full = @ \o token,
                         !.asked = @ + 1,
                         !.steps = Append(@, "token")]]
    /\ UNCHANGED <<sessions, chats, history>>

\* A variant of the loop that yields the token without adding it to full.
StreamToken_ForwardsOnly(r, cap) ==
    /\ req[r].pc = "stream"
    /\ Len(req[r].out) < cap
    /\ LET token == Token(Len(req[r].out) + 1)
       IN  req' = [req EXCEPT ![r] =
               [@ EXCEPT !.pc = "yielded",
                         !.out = Append(@, token),
                         !.steps = Append(@, "token")]]
    /\ UNCHANGED <<sessions, chats, history>>

\* The provider delivers the next token: full += token; yield token.
StreamToken(r, cap) ==
    /\ req[r].pc = "stream"
    /\ Len(req[r].full) < cap
    /\ LET token == Token(Len(req[r].full) + 1)
       IN  req' = [req EXCEPT ![r] =
               [@ EXCEPT !.pc = "yielded",
                         !.full = @ \o token,
                         !.out = Append(@, token),
                         !.steps = Append(@, "token")]]
    /\ UNCHANGED <<sessions, chats, history>>

\* The caller took the chunk and asks for the next one: the generator resumes
\* after its yield. Chat and image analysis ask the provider for the next
\* token; the image stub and the invalid-mode generator return.
Resume(r) ==
    /\ req[r].pc = "yielded"
    /\ req' = [req EXCEPT ![r] =
           IF req[r].strategy \in {ChatStrategy, ImageAnalysisStrategy}
           THEN [@ EXCEPT !.pc = "stream", !.asked = @ + 1]
           ELSE Finish(200, "ok", @)]
    /\ UNCHANGED <<sessions, chats, history>>

\* The provider stream ends.
StreamEnd(r) ==
    /\ req[r].pc = "stream"
    /\ req' = [req EXCEPT ![r] = [@ EXCEPT !.pc = "persist", !.drained = TRUE]]
    /\ UNCHANGED <<sessions, chats, history>>

\* A variant of the failure path that saves the text accumulated so far.
StreamFail_SavesPartial(r) ==
    /\ req[r].pc = "stream"
    /\ history' = create_chat_message(req[r].active_chat, ASSISTANT, mode_of(req[r].strategy),
                                      req[r].full, req[r].user_msg)
    /\ req' = [req EXCEPT ![r] = Finish(200, "provider_error", @)]
    /\ UNCHANGED <<sessions, chats>>

\* The provider fails while the stream is read: the exception leaves
\* generate_response.
StreamFail(r) ==
    /\ req[r].pc = "stream"
    /\ req' = [req EXCEPT ![r] = Finish(200, "provider_error", @)]
    /\ UNCHANGED <<sessions, chats, history>>

\* A variant that links the ASSISTANT message to the latest USER message of
\* the chat.
PersistAssistant_LinksLatest(r, cap) ==
    /\ req[r].pc = "persist"
    /\ Len(history) < cap
    /\ LET users == {i \in 1..Len(history) : /\ history[i].chat_id = req[r].active_chat
                                              /\ history[i].role = USER}
           latest == CHOOSE i \in users : \A j \in users : j <= i
       IN  history' = create_chat_message(req[r].active_chat, ASSISTANT,
                                          mode_of(req[r].strategy), req[r].full,
                                          history[latest].chat_history_id)
    /\ req' = [req EXCEPT ![r] =
           Finish(200, "ok", [@ EXCEPT !.asst_msg = Len(history) + 1,
                                       !.steps = Append(@, "asst")])]
    /\ UNCHANGED <<sessions, chats>>

\* After the loop: the ASSISTANT message with the accumulated text.
PersistAssistant(r, cap) ==
    /\ req[r].pc = "persist"
    /\ Len(history) < cap
    /\ history' = create_chat_message(req[r].active_chat, ASSISTANT, mode_of(req[r].strategy),
                                      req[r].full, req[r].user_msg)
    /\ req' = [req EXCEPT ![r] =
           Finish(200, "ok", [@ EXCEPT !.asst_msg = Len(history) + 1,
                                       !.steps = Append(@, "asst")])]
    /\ UNCHANGED <<sessions, chats>>

\* ImageStrategy: the stub ASSISTANT message is committed, then the stub is
\* yielded.
PersistStub(r, cap) ==
    /\ req[r].pc = "stub"
    /\ Len(history) < cap
    /\ history' = create_chat_message(req[r].active_chat, ASSISTANT, "image",
                                      stub_response, req[r].user_msg)
    /\ req' = [req EXCEPT ![r] =
           [@ EXCEPT !.pc = "yielded",
                     !.asst_msg = Len(history) + 1,
                     !.out = <<stub_response>>,
                     !.steps = Append(@, "asst")]]
    /\ UNCHANGED <<sessions, chats>>

\* BadStrategy.generate_response: one chunk naming the mode.
BadRespond(r) ==
    /\ req[r].pc = "gen"
    /\ req[r].strategy = BadStrategy
    /\ req' = [req EXCEPT ![r] =
           [@ EXCEPT !.pc = "yielded",
                     !.out = << <<"Invalid mode: ", req[r].invalid_mode>> >>]]
    /\ UNCHANGED <<sessions, chats, history>>

\* The client disconnects: the response task is cancelled at the await or the
\* yield where the generator stands, and nothing after it runs.
Disconnect(r) ==
    /\ req[r].pc \in {"gen", "history", "call", "stream", "yielded", "stub", "persist"}
    /\ req' = [req EXCEPT ![r] = Finish(200, "disconnected", @)]
    /\ UNCHANGED <<sessions, chats, history>>

\* The response is over and the slot is free again.
Retire(r) ==
    /\ req[r].pc = "done"
    /\ req' = [req EXCEPT ![r] = Idle]
    /\ UNCHANGED <<sessions, chats, history>>

\* ----------------------------------------------------------------- inputs
PNG_BYTES == SIG_PNG \o <<0, 0, 0, 13>>
TEXT_BYTES == <<78, 111, 116, 32, 97, 110, 32, 105, 109, 97, 103, 101>>

GoodImage == <<Url(S_https, "example.com"), NoB64>>

\* image_url and image_base64 of the bodies: a public HTTPS URL, a URL of a
\* private address, a payload that is no image, a payload that is no base64,
\* and neither of the two.
ImageInputs ==
    { GoodImage,
      <<Url(S_https, "10.0.0.1"), NoB64>>,
      <<NoUrl, B64(TRUE, TEXT_BYTES)>>,
      <<NoUrl, B64(FALSE, <<>>)>>,
      <<NoUrl, NoB64>> }

\* Bodies of POST /chat.
Bodies(modes, chat_ids, images) ==
    {Body(m, c, NoUrl, NoB64) : m \in modes \ {S_image_analysis}, c \in chat_ids}
        \cup {Body(m, c, i[1], i[2]) : m \in modes \cap {S_image_analysis},
                                       c \in chat_ids, i \in images}

\* The session table after POST /session for the user "x", for the
\* fingerprint "x" and for the user "y", and DELETE /session for the last.
TwoSessions ==
    << [session_id |-> 1, unique_reference_id |-> "x",
        reference_type |-> SIGNED_IN_USER, is_active |-> TRUE],
       [session_id |-> 2, unique_reference_id |-> "x",
        reference_type |-> NON_SIGNED_IN_USER, is_active |-> TRUE],
       [session_id |-> 3, unique_reference_id |-> "y",
        reference_type |-> SIGNED_IN_USER, is_active |-> FALSE] >>

\* ------------------------------------------------------------------ system
\* Spec: the /chat pipeline with every kind of request, one request at a time.
Init ==
    /\ sessions = TwoSessions
    /\ chats = <<>>
    /\ history = <<>>
    /\ req = [r \in ReqIds |-> Idle]

Next ==
    \/ \E x \in 0..3, b \in Bodies({S_chat, S_image, S_image_analysis, S_video},
                                   0..MaxChats, ImageInputs) : ChatBegin(1, x, b)
    \/ ChatValidate(1)
    \/ ChatGetOrCreate(1, MaxChats)
    \/ PersistUser(1, MaxMsgs)
    \/ ReadHistory(1)
    \/ \E provider_ok \in BOOLEAN : CallProvider(1, provider_ok)
    \/ StreamToken(1, MaxTokens)
    \/ Resume(1)
    \/ StreamEnd(1)
    \/ StreamFail(1)
    \/ PersistAssistant(1, MaxMsgs)
    \/ PersistStub(1, MaxMsgs)
    \/ BadRespond(1)
    \/ Disconnect(1)
    \/ \E x \in 0..3 : ListHistory(1, x)
    \/ \E x \in 0..3, chat_id \in 1..(MaxChats + 1), page \in 1..2, page_size \in {1, 10} :
          GetChatHistory(1, x, chat_id, page, page_size)
    \/ Retire(1)

Spec == Init /\ [][Next]_vars

\* The conversation of a session: the first chat it owns, None before.
own_chat(session_id) ==
    LET mine == {j \in 1..Len(chats) : chats[j].session_id = session_id}
    IN  IF mine = {} THEN None ELSE chats[CHOOSE j \in mine : \A k \in mine : j <= k].chat_id

\* SpecQuota: many requests of the two sessions, one at a time, each in the
\* conversation of its session, with the provider answering an empty stream
\* or failing.
NextQuota ==
    \/ \E x \in 1..2, b \in Bodies({S_chat, S_image, S_image_analysis},
                                   0..Len(chats), {GoodImage}) :
          /\ b.chat_id = own_chat(x)
          /\ ChatBegin(1, x, b)
    \/ ChatValidate(1)
    \/ ChatGetOrCreate(1, Len(sessions))
    \/ PersistUser(1, MaxQuotaMsgs)
    \/ ReadHistory(1)
    \/ \E provider_ok \in BOOLEAN : CallProvider(1, provider_ok)
    \/ StreamEnd(1)
    \/ PersistAssistant(1, MaxQuotaMsgs)
    \/ PersistStub(1, MaxQuotaMsgs)
    \/ Resume(1)
    \/ Disconnect(1)
    \/ Retire(1)

SpecQuota == Init /\ [][NextQuota]_vars

\* SpecRace: MaxReq requests in all, handled at the same time.
NextRace ==
    \/ \E r \in ReqIds, x \in 1..2, b \in Bodies({S_chat, S_image_analysis}, 0..1,
                                                  {GoodImage}) : ChatBegin(r, x, b)
    \/ \E r \in ReqIds : ChatValidate(r)
    \/ \E r \in ReqIds : ChatGetOrCreate(r, MaxReq)
    \/ \E r \in ReqIds : PersistUser(r, 2 * MaxReq)
    \/ \E r \in ReqIds : ReadHistory(r)
    \/ \E r \in ReqIds, provider_ok \in BOOLEAN : CallProvider(r, provider_ok)
    \/ \E r \in ReqIds : StreamToken(r, 1)
    \/ \E r \in ReqIds : Resume(r)
    \/ \E r \in ReqIds : StreamEnd(r)
    \/ \E r \in ReqIds : StreamFail(r)
    \/ \E r \in ReqIds : PersistAssistant(r, 2 * MaxReq)
    \/ \E r \in ReqIds : Disconnect(r)

SpecRace == Init /\ [][NextRace]_vars

\* SpecImage: image-analysis requests, one at a time, with image URLs and
\* base64 payloads of every kind, up to the provider request.
JPEG_BYTES == SIG_JPEG \o <<224, 0, 16>>
GIF87a_BYTES == SIG_GIF87a \o <<1, 0>>
GIF89a_BYTES == SIG_GIF89a \o <<1, 0>>
WEBP_BYTES == SIG_RIFF \o <<36, 0, 0, 0>> \o SIG_WEBP \o <<86, 80, 56, 32>>
WAVE_BYTES == SIG_RIFF \o <<36, 0, 0, 0>> \o <<87, 65, 86, 69>> \o <<102, 109, 116, 32>>

ImagePayloads ==
    {<<>>, JPEG_BYTES, PNG_BYTES, GIF87a_BYTES, GIF89a_BYTES, WEBP_BYTES, WAVE_BYTES,
     SIG_RIFF, SubSeq(SIG_PNG, 1, 4), <<255, 216>>, TEXT_BYTES}

Hostnames == {"", "example.com", "127.0.0.1", "10.0.0.1", "localhost", "rebind.example", "nowhere.invalid"}

ImageCases ==
    {<<Url(scheme, hostname), NoB64>> : scheme \in {S_https, S_HTTPS, S_http, S_ftp},
                                        hostname \in Hostnames}
        \cup {<<NoUrl, B64(TRUE, decoded)>> : decoded \in ImagePayloads}
        \cup {<<NoUrl, B64(FALSE, <<>>)>>, <<NoUrl, DataUrl>>}

NextImage ==
    \/ \E x \in 1..2, b \in Bodies({S_image_analysis}, 0..MaxChats, ImageCases) :
          ChatBegin(1, x, b)
    \/ ChatValidate(1)
    \/ ChatGetOrCreate(1, MaxChats)
    \/ PersistUser(1, MaxMsgs)
    \/ ReadHistory(1)
    \/ \E provider_ok \in BOOLEAN : CallProvider(1, provider_ok)
    \/ Disconnect(1)
    \/ Retire(1)

SpecImage == Init /\ [][NextImage]_vars

\* SpecChat: chat-mode requests of the two sessions, one at a time, naming no
\* chat, a chat that exists or a chat that does not.
NextChat ==
    \/ \E x \in 1..2, b \in Bodies({S_chat}, 0..(MaxChats + 2), {GoodImage}) : ChatBegin(1, x, b)
    \/ ChatValidate(1)
    \/ ChatGetOrCreate(1, MaxChats + 1)
    \/ PersistUser(1, MaxMsgs)
    \/ ReadHistory(1)
    \/ \E provider_ok \in BOOLEAN : CallProvider(1, provider_ok)
    \/ StreamToken(1, 1)
    \/ Resume(1)
    \/ StreamEnd(1)
    \/ StreamFail(1)
    \/ PersistAssistant(1, MaxMsgs)
    \/ Disconnect(1)
    \/ Retire(1)

SpecChat == Init /\ [][NextChat]_vars

\* SpecDispatch: chat requests with every kind of raw mode string, one at a
\* time, up to the first chunk.
S_blank == <<" ", "\t">>
S_IMAGE_padded == <<"\n", "I", "m", "A", "g", "E", " ">>
S_Video_padded == <<" ", "V", "i", "D", "e", "O">>
RawModes ==
    {<<>>, S_blank, S_chat, S_CHAT_padded, S_image, S_IMAGE_padded, S_image_analysis,
     S_video, S_Video_padded, S_unknown}

NextDispatch ==
    \/ \E x \in 1..2, b \in Bodies(RawModes, 0..MaxChats, {GoodImage}) : ChatBegin(1, x, b)
    \/ ChatValidate(1)
    \/ ChatGetOrCreate(1, MaxChats)
    \/ BadRespond(1)
    \/ Resume(1)
    \/ Disconnect(1)
    \/ Retire(1)

SpecDispatch == Init /\ [][NextDispatch]_vars

\* SpecSession: the session endpoints and the chat list, one request at a
\* time, on a session table that starts empty.
InitSession ==
    /\ sessions = <<>>
    /\ chats = <<>>
    /\ history = <<>>
    /\ req = [r \in ReqIds |-> Idle]

\* The user ids and the header values of the requests; the second user id
\* is the fingerprint of the request with no header.
UserIds == {"", generate_fingerprint("", "", "")}
HeaderValues == {"", "a"}

NextSession ==
    \/ \E jwt_user_id \in {""}, x_user_id \in UserIds,
          user_agent \in HeaderValues, accept_language \in {""}, client_ip \in {""} :
          CreateSession(1, jwt_user_id, x_user_id, user_agent, accept_language, client_ip)
    \/ CreateSessionInsert(1, MaxSessions)
    \/ \E x \in 0..(MaxSessions + 1) : DeleteSessionCheck(1, x)
    \/ DeleteSessionInvalidate(1)
    \/ \E x \in 0..(MaxSessions + 1) : ListHistory(1, x)
    \/ Retire(1)

SpecSession == InitSession /\ [][NextSession]_vars

\* SpecAuth: every endpoint that takes the session header, one request at a
\* time, with the sessions of one anonymous client created and torn down.
NextAuth ==
    \/ CreateSession(1, "", "", "", "", "")
    \/ CreateSessionInsert(1, MaxSessions)
    \/ \E x \in 0..(MaxSessions + 1) : DeleteSessionCheck(1, x)
    \/ DeleteSessionInvalidate(1)
    \/ \E x \in 0..(MaxSessions + 1) : ListHistory(1, x)
    \/ \E x \in 0..(MaxSessions + 1), chat_id \in 1..(MaxChats + 1) :
          GetChatHistory(1, x, chat_id, 1, 10)
    \/ \E x \in 0..(MaxSessions + 1), b \in Bodies({S_chat}, 0..MaxChats, {GoodImage}) :
          ChatBegin(1, x, b)
    \/ ChatValidate(1)
    \/ ChatGetOrCreate(1, MaxChats)
    \/ PersistUser(1, MaxMsgs)
    \/ Disconnect(1)
    \/ Retire(1)

SpecAuth == InitSession /\ [][NextAuth]_vars

\* SpecSessionRace: POST /session and DELETE /session, MaxReq requests at the
\* same time.
NextSessionRace ==
    \/ \E r \in ReqIds, x_user_id \in {"", "u"} : CreateSession(r, "", x_user_id, "", "", "")
    \/ \E r \in ReqIds : CreateSessionInsert(r, MaxSessions)
    \/ \E r \in ReqIds, x \in 0..MaxSessions : DeleteSessionCheck(r, x)
    \/ \E r \in ReqIds : DeleteSessionInvalidate(r)
    \/ \E r \in ReqIds : Retire(r)

SpecSessionRace == InitSession /\ [][NextSessionRace]_vars

\* SpecBoundary: the anonymous session has used one of its two chat uses in a
\* finished request; MaxReq further chat requests of that session, in its
\* conversation, are handled at the same time.
InitBoundary ==
    /\ sessions = TwoSessions
    /\ chats = <<[chat_id |-> 1, session_id |-> 2]>>
    /\ history = <<[chat_history_id |-> 1, chat_id |-> 1, previous_message_id |-> None,
                    role |-> USER, mode |-> "chat", content |-> Prompt],
                   [chat_history_id |-> 2, chat_id |-> 1, previous_message_id |-> 1,
                    role |-> ASSISTANT, mode |-> "chat", content |-> <<>>]>>
    /\ req = [r \in ReqIds |-> Idle]

NextBoundary ==
    \/ \E r \in ReqIds, b \in Bodies({S_chat}, 0..Len(chats), {GoodImage}) :
          /\ b.chat_id = own_chat(2)
          /\ ChatBegin(r, 2, b)
    \/ \E r \in ReqIds : ChatValidate(r)
    \/ \E r \in ReqIds : ChatGetOrCreate(r, 1 + MaxReq)
    \/ \E r \in ReqIds : PersistUser(r, 2 + 2 * MaxReq)
    \/ \E r \in ReqIds : ReadHistory(r)
    \/ \E r \in ReqIds, provider_ok \in BOOLEAN : CallProvider(r, provider_ok)
    \/ \E r \in ReqIds : StreamEnd(r)
    \/ \E r \in ReqIds : PersistAssistant(r, 2 + 2 * MaxReq)
    \/ \E r \in ReqIds : Disconnect(r)

SpecBoundary == InitBoundary /\ [][NextBoundary]_vars

\* SpecAnalysis: ImageAnalysisStrategy.generate_response called on the chat of
\* session 1 with every combination of image URL and payload, also those the
\* request validator of POST /chat turns away.
InitAnalysis ==
    /\ sessions = TwoSessions
    /\ chats = <<[chat_id |-> 1, session_id |-> 1]>>
    /\ history = <<>>
    /\ req = [r \in ReqIds |-> Idle]

AnalysisCases ==
    ImageCases \cup
        { <<NoUrl, NoB64>>,
          <<Url(S_https, "example.com"), B64(TRUE, PNG_BYTES)>>,
          <<Url(S_https, "example.com"), DataUrl>>,
          <<Url(S_http, "10.0.0.1"), B64(FALSE, <<>>)>> }

\* generate_response is entered with the extras of the caller.
GenerateResponse(r, image_url, image_base64) ==
    /\ FreeSlot(r)
    /\ req' = [req EXCEPT ![r] =
           [Idle EXCEPT !.pc = "gen", !.op = "generate_response",
                        !.x_session_id = 1, !.reference_type = SIGNED_IN_USER,
                        !.body = Body(S_image_analysis, 1, image_url, image_base64),
                        !.strategy = ImageAnalysisStrategy,
                        !.active_chat = 1,
                        !.n_chats = Len(chats), !.n_msgs = Len(history)]]
    /\ UNCHANGED <<sessions, chats, history>>

NextAnalysis ==
    \/ \E i \in AnalysisCases : GenerateResponse(1, i[1], i[2])
    \/ PersistUser(1, MaxMsgs)
    \/ ReadHistory(1)
    \/ \E provider_ok \in BOOLEAN : CallProvider(1, provider_ok)
    \/ StreamToken(1, 1)
    \/ Resume(1)
    \/ StreamEnd(1)
    \/ StreamFail(1)
    \/ PersistAssistant(1, MaxMsgs)
    \/ Disconnect(1)
    \/ Retire(1)

SpecAnalysis == InitAnalysis /\ [][NextAnalysis]_vars

\* ---------------------------------------------------------------- ZaiService
\* SpecZai: calls of ZaiService.generate_response_stream, one at a time, with
\* every kind of provider answer.
master_prompt == "master prompt"

\* _with_master_prompt
ZaiService_with_master_prompt(messages) ==
    <<[role |-> "system", content |-> master_prompt]>> \o messages

\* A JSON member: missing, null, or a value.
Missing == [kind |-> "missing", text |-> "", items |-> <<>>]
Null == [kind |-> "null", text |-> "", items |-> <<>>]
Str(text) == [kind |-> "str", text |-> text, items |-> <<>>]
List(items) == [kind |-> "list", text |-> "", items |-> items]

\* A choice object with the given member message.content, and one without
\* the member message.
ChoiceWith(content) == [message |-> "object", content |-> content]
EmptyChoice == [message |-> "missing", content |-> Missing]

\* data.get("choices", [{}])[0].get("message", {}).get("content", ""): the
\* content, "" by default, or the IndexError of an empty choices list.
IndexError == [kind |-> "IndexError", text |-> "", items |-> <<>>]
zai_content(data) ==
    LET choices == IF data.choices.kind = "missing" THEN <<EmptyChoice>> ELSE data.choices.items
    IN  IF choices = <<>> THEN IndexError
        ELSE IF choices[1].message = "missing" THEN Str("")
        ELSE IF choices[1].content.kind = "missing" THEN Str("")
        ELSE choices[1].content

\* `if content:`
truthy(content) == content.kind = "str" /\ content.text # ""

ZaiAnswers ==
    { [choices |-> Missing],
      [choices |-> List(<<>>)],
      [choices |-> List(<<EmptyChoice>>)],
      [choices |-> List(<<ChoiceWith(Missing)>>)],
      [choices |-> List(<<ChoiceWith(Null)>>)],
      [choices |-> List(<<ChoiceWith(Str(""))>>)],
      [choices |-> List(<<ChoiceWith(Str("full text"))>>)],
      [choices |-> List(<<ChoiceWith(Str("first")), ChoiceWith(Str("second"))>>)] }

ZaiMessages ==
    LET turns == {[role |-> role, content |-> content] :
                      role \in {"user", "assistant"}, content \in {"hi", "more"}}
    IN  {<<>>} \cup {<<t>> : t \in turns} \cup {<<t, u>> : t \in turns, u \in turns}

\* generate_response_stream up to the POST of the request.
ZaiPost(r, messages) ==
    /\ FreeSlot(r)
    /\ req' = [req EXCEPT ![r] =
           [Idle EXCEPT !.pc = "zai_post", !.op = "generate_response_stream",
                        !.model_messages = ZaiService_with_master_prompt(messages),
                        !.steps = <<"post">>]]
    /\ UNCHANGED <<sessions, chats, history>>

\* The answer arrives: raise_for_status, response.json(), the content, and
\* the yield when the content is true.
ZaiAnswer(r, http_ok, data) ==
    /\ req[r].pc = "zai_post"
    /\ req' = [req EXCEPT ![r] =
           IF ~http_ok THEN Finish(0, "provider_error", @)
           ELSE LET content == zai_content(data)
                IN  IF content = IndexError
                    THEN Finish(0, "IndexError", [@ EXCEPT !.result = data])
                    ELSE IF truthy(content)
                         THEN [@ EXCEPT !.pc = "zai_yielded", !.result = data,
                                        !.out = <<content.text>>,
                                        !.steps = Append(@, "yield")]
                         ELSE Finish(0, "ok", [@ EXCEPT !.result = data])]
    /\ UNCHANGED <<sessions, chats, history>>

\* The caller took the chunk: the generator returns.
ZaiReturn(r) ==
    /\ req[r].pc = "zai_yielded"
    /\ req' = [req EXCEPT ![r] = Finish(0, "ok", @)]
    /\ UNCHANGED <<sessions, chats, history>>

NextZai ==
    \/ \E messages \in ZaiMessages : ZaiPost(1, messages)
    \/ \E http_ok \in BOOLEAN, data \in ZaiAnswers : ZaiAnswer(1, http_ok, data)
    \/ ZaiReturn(1)
    \/ Retire(1)

SpecZai == Init /\ [][NextZai]_vars

\* ------------------------------------------------------------- properties
\* The /chat requests whose strategy streams a provider answer.
Streams(r) ==
    req[r].op = "chat" /\ req[r].strategy \in {ChatStrategy, ImageAnalysisStrategy}

\* The ASSISTANT rows that name the row u as their previous message.
AnswersTo(u) ==
    {i \in 1..Len(history) : history[i].role = ASSISTANT /\ history[i].previous_message_id = u}

\* The USER rows of a mode in the chats a session owns, counted row by row.
RECURSIVE CountRows(_, _, _)
CountRows(h, session_id, mode) ==
    IF h = <<>> THEN 0
    ELSE (IF /\ Head(h).role = USER
             /\ Head(h).mode = mode
             /\ owner_of(Head(h).chat_id) = session_id
          THEN 1 ELSE 0) + CountRows(Tail(h), session_id, mode)

LedgerCount(session_id, mode) == CountRows(history, session_id, mode)

\* The request stands right after run_validation: accepted, or answered 403.
Accepted(r) == req[r].pc = "get_chat"
Rejected(r) == req[r].pc = "done" /\ req[r].status = 403
JustValidated(r) == req[r].op = "chat" /\ (Accepted(r) \/ Rejected(r))

\* C1: for the Chat and ImageAnalysis strategies an ASSISTANT row exists only
\* for a request whose provider stream ended without error, and it holds the
\* whole accumulated text; a request ended by a provider failure or by the
\* client's disconnect has no ASSISTANT row in this or any later state, and
\* the USER row it persisted is still there.
C1_AssistantOnlyAfterDrain ==
    \A r \in ReqIds : Streams(r) =>
        /\ req[r].asst_msg # None =>
              /\ req[r].drained
              /\ history[req[r].asst_msg].content = req[r].full
        /\ req[r].user_msg # None =>
              /\ AnswersTo(req[r].user_msg) \subseteq {req[r].asst_msg}
              /\ history[req[r].user_msg].role = USER
              /\ history[req[r].user_msg].content = Prompt
              /\ history[req[r].user_msg].chat_id = req[r].active_chat
        /\ (req[r].pc = "done" /\ req[r].outcome \in {"provider_error", "disconnected"}) =>
              /\ req[r].asst_msg = None
              /\ req[r].user_msg # None => AnswersTo(req[r].user_msg) = {}

\* A request failed after a token was forwarded, and another request has
\* since written its ASSISTANT row into the same chat.
C1_Witness ==
    \E r, q \in ReqIds :
        /\ r # q
        /\ Streams(r) /\ req[r].pc = "done" /\ req[r].outcome = "provider_error"
        /\ Len(req[r].out) >= 1
        /\ req[r].user_msg # None
        /\ req[q].asst_msg # None
        /\ req[q].active_chat = req[r].active_chat
        /\ req[q].asst_msg > req[r].user_msg

\* C2: the ASSISTANT row of a chat or image_analysis request that ran to
\* completion names the USER row of the same request as its previous message,
\* no other request's, and is in the same chat with the same mode.
C2_AssistantLinksOwnUser ==
    \A r \in ReqIds : Streams(r) =>
        /\ (req[r].pc = "done" /\ req[r].outcome = "ok") => req[r].asst_msg # None
        /\ req[r].asst_msg # None =>
              /\ req[r].user_msg # None
              /\ history[req[r].asst_msg].role = ASSISTANT
              /\ history[req[r].user_msg].role = USER
              /\ history[req[r].asst_msg].previous_message_id = req[r].user_msg
              /\ history[req[r].asst_msg].chat_id = history[req[r].user_msg].chat_id
              /\ history[req[r].asst_msg].chat_id = req[r].active_chat
              /\ history[req[r].asst_msg].mode = history[req[r].user_msg].mode
              /\ history[req[r].asst_msg].mode = mode_of(req[r].strategy)
              /\ \A q \in ReqIds \ {r} :
                    req[q].user_msg # history[req[r].asst_msg].previous_message_id

\* Two requests completed on one chat, the USER row of the second written
\* between the USER row and the ASSISTANT row of the first.
C2_Witness ==
    \E r, q \in ReqIds :
        /\ r # q
        /\ Streams(r) /\ Streams(q)
        /\ req[r].asst_msg # None /\ req[q].asst_msg # None
        /\ req[r].active_chat = req[q].active_chat
        /\ req[r].user_msg < req[q].user_msg
        /\ req[q].user_msg < req[r].asst_msg

\* The step that may follow a step of the pipeline.
Follows(a, b) ==
    \/ a = "session" /\ b = "validate"
    \/ a = "validate" /\ b = "chat"
    \/ a = "chat" /\ b = "user"
    \/ a = "user" /\ b = "history"
    \/ a = "history" /\ b = "call"
    \/ a = "call" /\ b \in {"token", "asst"}
    \/ a = "token" /\ b \in {"token", "asst"}

\* C3: a chat request takes its steps in the order validate, fetch-or-create
\* chat, persist USER, (read history,) call provider, stream, persist
\* ASSISTANT; nothing is written before validation; the USER row, with no
\* previous message, is committed before the provider is called or a chunk is
\* forwarded; a token is forwarded before the next one is requested.
C3_PipelineOrder ==
    \A r \in ReqIds :
        (req[r].op = "chat" /\ req[r].strategy \in {NoClass, ChatStrategy}) =>
            /\ req[r].steps # <<>> => req[r].steps[1] = "session"
            /\ \A i \in 1..(Len(req[r].steps) - 1) :
                  Follows(req[r].steps[i], req[r].steps[i + 1])
            /\ "validate" \notin Range(req[r].steps) =>
                  /\ req[r].made_chat = None /\ req[r].user_msg = None
                  /\ Len(chats) = req[r].n_chats /\ Len(history) = req[r].n_msgs
            /\ ("call" \in Range(req[r].steps) \/ req[r].asked > 0 \/ req[r].out # <<>>) =>
                  /\ req[r].user_msg # None
                  /\ history[req[r].user_msg].role = USER
                  /\ history[req[r].user_msg].previous_message_id = None
            /\ req[r].asked <= Len(req[r].out) + 1
            /\ Len(req[r].full) = Len(req[r].out)
            /\ req[r].asst_msg # None => history[req[r].asst_msg].content = req[r].full

\* A chat request ran through every step, with two tokens.
C3_Witness ==
    \E r \in ReqIds :
        /\ req[r].strategy = ChatStrategy
        /\ req[r].steps = <<"session", "validate", "chat", "user", "history", "call",
                            "token", "token", "asst">>
        /\ req[r].out = <<Token(1), Token(2)>>

\* C4: ChatStrategy.run_validation accepts exactly when the session's USER
\* chat rows number at most 3 (signed-in) or at most 1 (anonymous); the count
\* is read while the request's own USER row is not yet persisted.
C4_ChatCeiling ==
    \A r \in ReqIds :
        (JustValidated(r) /\ req[r].strategy = ChatStrategy) =>
            LET n == LedgerCount(req[r].x_session_id, "chat")
            IN  /\ req[r].used = n
                /\ req[r].user_msg = None
                /\ Accepted(r) <=> (IF req[r].reference_type = SIGNED_IN_USER
                                    THEN n <= 3 ELSE n <= 1)

\* A signed-in session with four USER chat rows is refused.
C4_Witness ==
    \E r \in ReqIds :
        /\ Rejected(r) /\ req[r].strategy = ChatStrategy
        /\ req[r].reference_type = SIGNED_IN_USER
        /\ req[r].used = 4

\* C5 as stated: of a session's chat requests, handled one after another, at
\* most 3 (signed-in) or 1 (anonymous) are accepted, and the request of an
\* anonymous session with one USER chat row is refused.
C5_AsStated ==
    /\ \A i \in 1..Len(sessions) :
          LedgerCount(sessions[i].session_id, "chat")
              <= (IF sessions[i].reference_type = SIGNED_IN_USER THEN 3 ELSE 1)
    /\ \A r \in ReqIds :
          (/\ JustValidated(r) /\ req[r].strategy = ChatStrategy
           /\ req[r].reference_type = NON_SIGNED_IN_USER
           /\ req[r].used = 1) => Rejected(r)

\* C5, amended: with the requests handled one after another, each in a chat of
\* its session, at most 4 (signed-in) or 2 (anonymous) accepted requests
\* persist a USER chat row; the request of an anonymous session with one USER
\* chat row is accepted, and so is that of a signed-in session with three.
C5_TotalChatUses ==
    /\ \A i \in 1..Len(sessions) :
          LedgerCount(sessions[i].session_id, "chat")
              <= (IF sessions[i].reference_type = SIGNED_IN_USER THEN 4 ELSE 2)
    /\ \A r \in ReqIds :
          (/\ JustValidated(r) /\ req[r].strategy = ChatStrategy
           /\ req[r].used = (IF req[r].reference_type = SIGNED_IN_USER THEN 3 ELSE 1))
              => Accepted(r)

\* The second chat request of an anonymous session persisted its USER row.
C5_Witness ==
    \E r \in ReqIds :
        /\ req[r].strategy = ChatStrategy
        /\ req[r].reference_type = NON_SIGNED_IN_USER
        /\ req[r].used = 1
        /\ req[r].user_msg # None
        /\ LedgerCount(req[r].x_session_id, "chat") = 2

\* The sessions of an anonymous reference.
Anonymous ==
    {sessions[i].session_id : i \in {j \in 1..Len(sessions) :
                                        sessions[j].reference_type = NON_SIGNED_IN_USER}}

\* C6: once an anonymous session has two USER chat rows in its own chats,
\* validation answers each of its chat requests with 403 and writes nothing,
\* and the session never gains another USER chat row.
C6_AnonymousThirdRejected ==
    [][\A s \in Anonymous :
          LedgerCount(s, "chat") >= 2 =>
              /\ LedgerCount(s, "chat")' = LedgerCount(s, "chat")
              /\ \A r \in ReqIds :
                    (/\ req[r].pc = "validate" /\ req[r].x_session_id = s
                     /\ req'[r].pc # "validate"
                     /\ req'[r].strategy = ChatStrategy)
                        => /\ req'[r].pc = "done" /\ req'[r].status = 403
                           /\ UNCHANGED <<sessions, chats, history>>]_vars

\* The third chat request of an anonymous session was answered 403.
C6_Witness ==
    \E r \in ReqIds :
        /\ Rejected(r) /\ req[r].strategy = ChatStrategy
        /\ req[r].x_session_id \in Anonymous
        /\ req[r].body.chat_id = own_chat(req[r].x_session_id)
        /\ LedgerCount(req[r].x_session_id, "chat") = 2

\* C7: ImageStrategy and ImageAnalysisStrategy refuse every session that is
\* not signed in, and accept a signed-in session exactly while its USER rows
\* of the strategy's own mode number fewer than 3, whatever the rows of the
\* other modes.
C7_ImageCeilings ==
    \A r \in ReqIds :
        (JustValidated(r) /\ req[r].strategy \in {ImageStrategy, ImageAnalysisStrategy}) =>
            (Accepted(r) <=>
                /\ req[r].reference_type = SIGNED_IN_USER
                /\ LedgerCount(req[r].x_session_id, mode_of(req[r].strategy)) < 3)

\* An image request is accepted with two USER image rows while the session
\* has three USER image_analysis rows.
C7_Witness ==
    \E r \in ReqIds :
        /\ Accepted(r) /\ req[r].strategy = ImageStrategy
        /\ LedgerCount(req[r].x_session_id, "image") = 2
        /\ LedgerCount(req[r].x_session_id, "image_analysis") = 3

\* C8: for every session and mode the ledger count is the number of USER rows
\* of exactly that mode in the chats the session owns; it is never negative,
\* and zero when the session owns no such row.
C8_LedgerCount ==
    \A session_id \in 1..(Len(sessions) + 1), mode \in {"chat", "image", "image_analysis", "none"} :
        LET n == count_user_messages_for_session_by_mode(session_id, mode)
        IN  /\ n = LedgerCount(session_id, mode)
            /\ n >= 0
            /\ (~\E i \in 1..Len(history) :
                    /\ history[i].role = USER /\ history[i].mode = mode
                    /\ owner_of(history[i].chat_id) = session_id) => n = 0

\* A session wrote a USER chat row into another session's chat, next to an
\* ASSISTANT row: the owner's count is one, the writer's zero.
C8_Witness ==
    \E r \in ReqIds :
        /\ req[r].user_msg # None /\ req[r].strategy = ChatStrategy
        /\ owner_of(req[r].active_chat) # req[r].x_session_id
        /\ \E i \in 1..Len(history) : history[i].role = ASSISTANT
        /\ count_user_messages_for_session_by_mode(req[r].x_session_id, "chat") = 0
        /\ count_user_messages_for_session_by_mode(owner_of(req[r].active_chat), "chat") = 1
        /\ count_user_messages_for_session_by_mode(owner_of(req[r].active_chat), "image") = 0

\* C9: a request whose run_validation returned false ends with 403 and the
\* store as it was: no chat created, no message written, no provider call, no
\* chunk.
C9_RejectedLeavesNoTrace ==
    \A r \in ReqIds :
        /\ (req[r].op = "chat" /\ "validate" \in Range(req[r].steps)
               /\ ~run_validation(req[r].strategy, req[r].x_session_id,
                                  req[r].reference_type).ok
               /\ req[r].user_msg = None)
              => Rejected(r)
        /\ (req[r].op = "chat" /\ req[r].status = 403) =>
              /\ req[r].pc = "done"
              /\ req[r].made_chat = None /\ req[r].active_chat = None
              /\ req[r].user_msg = None /\ req[r].asst_msg = None
              /\ req[r].asked = 0 /\ req[r].out = <<>>
              /\ "call" \notin Range(req[r].steps)
              /\ Len(chats) = req[r].n_chats
              /\ Len(history) = req[r].n_msgs

\* A chat request that asked for a new chat was refused for its quota.
C9_Witness ==
    \E r \in ReqIds :
        /\ Rejected(r) /\ req[r].strategy = ChatStrategy
        /\ req[r].body.chat_id = None
        /\ req[r].used = 2

\* C10 as stated: an image_analysis request whose image input fails the
\* security validation leaves no new chat and no new message.
C10_AsStated ==
    \A r \in ReqIds :
        (/\ req[r].op = "chat" /\ req[r].strategy = ImageAnalysisStrategy
         /\ stream_image_analysis_checks(req[r].body.image_url,
                                         req[r].body.image_base64) = ValueError) =>
            /\ req[r].made_chat = None
            /\ req[r].user_msg = None /\ req[r].asst_msg = None
            /\ Len(chats) = req[r].n_chats
            /\ Len(history) = req[r].n_msgs

\* C11 as stated: at most one active session row per (reference identity,
\* reference kind) pair, in every reachable state.
C11_AsStated ==
    \A i, j \in 1..Len(sessions) :
        (/\ sessions[i].is_active /\ sessions[j].is_active
         /\ sessions[i].unique_reference_id = sessions[j].unique_reference_id
         /\ sessions[i].reference_type = sessions[j].reference_type) => i = j

\* The active session rows of an identity and kind.
ActiveRows(unique_reference_id, reference_type) ==
    {i \in 1..Len(sessions) :
        /\ sessions[i].is_active
        /\ sessions[i].unique_reference_id = unique_reference_id
        /\ sessions[i].reference_type = reference_type}

\* C12: a session-create for an identity that has an active session returns
\* that session's id and adds no row (so two creates in a row for one user id
\* return the same id); the session a create returns always carries the
\* identity and the kind of the request, so two different fingerprints, or a
\* user id and a fingerprint of the same string, never get the same session.
C12_SessionReuse ==
    [][\A r \in ReqIds :
          /\ (req[r].pc = "idle" /\ req'[r].op = "create_session") =>
                LET active == ActiveRows(req'[r].unique_reference_id, req'[r].reference_type)
                IN  /\ sessions' = sessions
                    /\ active # {} =>
                          /\ req'[r].pc = "done" /\ req'[r].status = 200
                          /\ \E i \in active : req'[r].session_id = sessions[i].session_id
                    /\ active = {} => req'[r].pc = "insert_session"
          /\ (req[r].pc = "insert_session" /\ req'[r].pc = "done") =>
                /\ Len(sessions') = Len(sessions) + 1
                /\ \A i \in 1..Len(sessions) :
                      /\ sessions'[i] = sessions[i]
                      /\ sessions[i].session_id # req'[r].session_id
          /\ (req'[r].op = "create_session" /\ req'[r].pc = "done") =>
                \E i \in 1..Len(sessions') :
                    /\ sessions'[i].is_active
                    /\ sessions'[i].unique_reference_id = req'[r].unique_reference_id
                    /\ sessions'[i].reference_type = req'[r].reference_type
                    /\ sessions'[i].session_id = req'[r].session_id
                    /\ \A j \in 1..Len(sessions') :
                          sessions'[j].session_id = req'[r].session_id => j = i]_vars

\* A signed-in create got the session it already had, while an anonymous
\* session of the same string and one of another fingerprint are active.
C12_Witness ==
    \E r \in ReqIds :
        /\ req[r].op = "create_session" /\ req[r].pc = "done"
        /\ req[r].steps = <<"select">>
        /\ req[r].reference_type = SIGNED_IN_USER
        /\ Len(sessions) = 3
        /\ \A i \in 1..Len(sessions) : sessions[i].is_active
        /\ \E i \in 1..Len(sessions) :
              /\ sessions[i].reference_type = NON_SIGNED_IN_USER
              /\ sessions[i].unique_reference_id = req[r].unique_reference_id
              /\ sessions[i].session_id # req[r].session_id

\* The session row of an id, if there is one.
RowsOf(session_id) == {i \in 1..Len(sessions) : sessions[i].session_id = session_id}

\* C13 as stated: a teardown that names a session row, active or already
\* deactivated, returns success.
C13_AsStated ==
    \A r \in ReqIds :
        (/\ req[r].op = "delete_session" /\ req[r].pc = "done"
         /\ RowsOf(req[r].x_session_id) # {}) => req[r].status = 200

\* C13, amended: a teardown that names an active session deactivates that
\* row, changes no other row and returns success; a teardown that names a
\* session already deactivated (the second of two in a row) is answered 401
\* and changes nothing.
C13_Teardown ==
    [][\A r \in ReqIds :
          /\ (req[r].pc = "idle" /\ req'[r].op = "delete_session") =>
                /\ sessions' = sessions
                /\ (\E i \in RowsOf(req'[r].x_session_id) : sessions[i].is_active)
                      => req'[r].pc = "invalidate"
                /\ (/\ req'[r].x_session_id # None
                    /\ ~\E i \in RowsOf(req'[r].x_session_id) : sessions[i].is_active)
                      => req'[r].pc = "done" /\ req'[r].status = 401
          /\ (req[r].pc = "invalidate" /\ req'[r].pc = "done") =>
                /\ req'[r].status = 200
                /\ Len(sessions') = Len(sessions)
                /\ \A i \in 1..Len(sessions) :
                      sessions'[i] = IF i \in RowsOf(req[r].x_session_id)
                                     THEN [sessions[i] EXCEPT !.is_active = FALSE]
                                     ELSE sessions[i]
                /\ get_active_session(req[r].x_session_id)' = {}]_vars

\* The second teardown of a session was answered 401.
C13_Witness ==
    \E r \in ReqIds :
        /\ req[r].op = "delete_session" /\ req[r].pc = "done"
        /\ req[r].status = 401
        /\ \E i \in RowsOf(req[r].x_session_id) : ~sessions[i].is_active

\* The endpoints that take the session header.
HeaderEndpoints == {"chat", "list_history", "get_chat_history", "delete_session"}

\* C14: on the chat, history list, history detail and teardown endpoints a
\* request without the session header ends with 400, and one whose header
\* names no active session with 401, in the step that checks it: nothing is
\* dispatched, validated, logged or written. No session row is removed or made
\* active again, so every request after a teardown gets 401.
C14_HeaderChecks ==
    [][/\ \A r \in ReqIds :
             (/\ req[r].pc = "idle" /\ req'[r].op \in HeaderEndpoints
              /\ validate_mode_and_image_inputs(req'[r].body)
              /\ \/ req'[r].x_session_id = None
                 \/ ~\E i \in RowsOf(req'[r].x_session_id) : sessions[i].is_active) =>
                /\ req'[r].pc = "done"
                /\ req'[r].status = (IF req'[r].x_session_id = None THEN 400 ELSE 401)
                /\ req'[r].strategy = NoClass /\ req'[r].used = -1
                /\ req'[r].result = <<>> /\ req'[r].logged = 0
                /\ UNCHANGED <<sessions, chats, history>>
       /\ Len(sessions') >= Len(sessions)
       /\ \A i \in 1..Len(sessions) :
             /\ sessions'[i].session_id = sessions[i].session_id
             /\ ~sessions[i].is_active => ~sessions'[i].is_active]_vars

\* A chat request with the id of a session that was torn down after it had
\* opened a chat was answered 401.
C14_Witness ==
    \E r \in ReqIds :
        /\ req[r].op = "chat" /\ req[r].pc = "done" /\ req[r].status = 401
        /\ \E i \in RowsOf(req[r].x_session_id) : ~sessions[i].is_active
        /\ \E j \in 1..Len(chats) : chats[j].session_id = req[r].x_session_id

\* C15: the message listing of a chat the requesting session does not own
\* is answered 404 "Chat not found." with no message, whether the chat exists
\* or not; one suspicious-access entry is logged when it exists, none when it
\* does not; a listing the session owns logs nothing.
C15_ForeignChatNotFound ==
    \A r \in ReqIds :
        (/\ req[r].op = "get_chat_history" /\ req[r].pc = "done"
         /\ req[r].status \notin {400, 401}) =>
            LET chat_id == req[r].body.chat_id
                exists == \E j \in 1..Len(chats) : chats[j].chat_id = chat_id
                owned == exists /\ owner_of(chat_id) = req[r].x_session_id
            IN  /\ req[r].status # 403
                /\ ~owned =>
                      /\ req[r].status = 404 /\ req[r].outcome = "Chat not found."
                      /\ req[r].result = <<>>
                      /\ req[r].logged = (IF exists THEN 1 ELSE 0)
                /\ owned => req[r].status = 200 /\ req[r].logged = 0
                /\ Len(chats) = req[r].n_chats /\ Len(history) = req[r].n_msgs

\* An active session asked for another session's chat, which holds messages.
C15_Witness ==
    \E r \in ReqIds :
        /\ req[r].op = "get_chat_history" /\ req[r].status = 404
        /\ req[r].logged = 1
        /\ \E j \in 1..Len(chats) :
              /\ chats[j].chat_id = req[r].body.chat_id
              /\ chats[j].session_id # req[r].x_session_id
        /\ \E i \in 1..Len(history) : history[i].chat_id = req[r].body.chat_id

\* The normalized mode of a raw mode string; an absent or empty one is "chat".
Normalized(mode) == lower(strip(IF mode = NoMode \/ mode = <<>> THEN S_chat ELSE mode))

\* C16 as stated: the Invalid variant carries exactly the normalized
\* unmatched string, for every raw mode string.
C16_AsStated ==
    \A r \in ReqIds :
        (req[r].op = "chat" /\ req[r].strategy = BadStrategy) =>
            /\ req[r].invalid_mode = Normalized(req[r].body.mode)
            /\ req[r].out \in {<<>>, << <<"Invalid mode: ", Normalized(req[r].body.mode)>> >>}

\* C16, amended: choose_strategy returns a strategy for every raw mode
\* string, decided by the normalized mode alone: Chat when the mode is absent,
\* empty or normalizes to "chat", the registered variant of a registered name,
\* otherwise the Invalid variant, which carries the normalized string, or
\* "unknown" when that string is empty; the chunk of the Invalid variant names
\* the string it carries.
C16_Dispatch ==
    /\ \A mode \in RawModes \cup {NoMode} :
          LET n == Normalized(mode)
              got == choose_strategy(mode)
          IN  /\ got.cls \in {ChatStrategy, ImageStrategy, ImageAnalysisStrategy, BadStrategy}
              /\ (mode = NoMode \/ n = S_chat) => got.cls = ChatStrategy
              /\ n = S_image => got.cls = ImageStrategy
              /\ n = S_image_analysis => got.cls = ImageAnalysisStrategy
              /\ n \notin {S_chat, S_image, S_image_analysis} =>
                    /\ got.cls = BadStrategy
                    /\ got.invalid_mode = (IF n = <<>> THEN S_unknown ELSE n)
              /\ \A other \in RawModes : Normalized(other) = n => choose_strategy(other) = got
    /\ \A r \in ReqIds :
          (req[r].op = "chat" /\ "validate" \in Range(req[r].steps)) =>
              /\ req[r].strategy = choose_strategy(req[r].body.mode).cls
              /\ req[r].strategy = BadStrategy =>
                    /\ req[r].invalid_mode =
                          (IF Normalized(req[r].body.mode) = <<>> THEN S_unknown
                           ELSE Normalized(req[r].body.mode))
                    /\ req[r].used = -1
                    /\ req[r].out \in {<<>>, << <<"Invalid mode: ", req[r].invalid_mode>> >>}

\* A request with a mode of white space only got the chunk naming "unknown".
C16_Witness ==
    \E r \in ReqIds :
        /\ req[r].body.mode = S_blank
        /\ req[r].strategy = BadStrategy
        /\ req[r].out = << <<"Invalid mode: ", S_unknown>> >>

\* C17: a chat request whose mode matches no registered strategy is handled
\* by the Invalid variant: it passes validation for every session and count,
\* answers with one chunk, and leaves the persisted chats and messages as they
\* were before the request.
C17_AsStated ==
    \A r \in ReqIds :
        (req[r].op = "chat" /\ req[r].strategy = BadStrategy) =>
            /\ req[r].status # 403
            /\ Len(req[r].out) <= 1
            /\ Len(chats) = req[r].n_chats
            /\ Len(history) = req[r].n_msgs

\* The MIME type of the five signatures: FF D8 FF, the PNG signature,
\* GIF87a, GIF89a, and RIFF with WEBP at offset 8.
SignatureMime(data) ==
    IF startswith(data, SIG_JPEG) THEN "image/jpeg"
    ELSE IF startswith(data, SIG_PNG) THEN "image/png"
    ELSE IF startswith(data, SIG_GIF87a) \/ startswith(data, SIG_GIF89a) THEN "image/gif"
    ELSE IF startswith(data, SIG_RIFF) /\ Len(data) >= 12 /\ SubSeq(data, 9, 12) = SIG_WEBP
         THEN "image/webp"
         ELSE ValueError

\* C18: validate_image_content returns the MIME type of the signature the
\* bytes start with, and raises for every byte sequence that matches none of
\* the five signatures, so that an image-analysis request with such a payload
\* ends with the input error and never reaches the provider.
C18_AsStated ==
    \A r \in ReqIds :
        (/\ req[r].op = "chat"
         /\ req[r].body.image_base64.kind = "raw"
         /\ req[r].body.image_base64.valid) =>
            LET data == req[r].body.image_base64.decoded
            IN  /\ validate_image_content(data) = SignatureMime(data)
                /\ "call" \in Range(req[r].steps) => SignatureMime(data) # ValueError

\* The resolved addresses of a hostname that are private, loopback,
\* link-local, reserved or multicast.
InternalAddrs(hostname) ==
    {i \in 1..Len(getaddrinfo(hostname).addrs) :
        getaddrinfo(hostname).addrs[i] \in
            {"private", "loopback", "link_local", "reserved", "multicast"}}

\* C19: validate_image_url accepts a URL only if its scheme is https, its
\* hostname is present, the hostname resolves and no resolved address is
\* private, loopback, link-local, reserved or multicast, one internal address
\* among several being enough to reject; it checks the scheme first, then the
\* hostname, then the resolution; a request whose URL it rejects never reaches
\* the provider.
C19_UrlChecks ==
    \A r \in ReqIds :
        (req[r].op = "chat" /\ req[r].body.image_url.kind = "url") =>
            LET url == req[r].body.image_url
                got == validate_image_url(url)
                https == lower(url.scheme) = S_https
                named == url.hostname # ""
                resolves == ~getaddrinfo(url.hostname).gaierror
            IN  /\ got = "ok" <=>
                      (https /\ named /\ resolves /\ InternalAddrs(url.hostname) = {})
                /\ ~https => got = ERR_HTTPS
                /\ (https /\ ~named) => got = ERR_HOSTNAME
                /\ (https /\ named /\ ~resolves) => got = ERR_RESOLVE(url.hostname)
                /\ (https /\ named /\ resolves /\ InternalAddrs(url.hostname) # {}) =>
                      got = ERR_PRIVATE
                /\ (req[r].strategy = ImageAnalysisStrategy /\ "call" \in Range(req[r].steps)) =>
                      got = "ok"
                /\ (req[r].strategy = ImageAnalysisStrategy /\ req[r].outcome = "input_error") =>
                      got # "ok"

\* A request whose URL resolves to a public and a private address ended with
\* the input error after its user message was stored.
C19_Witness ==
    \E r \in ReqIds :
        /\ req[r].body.image_url = Url(S_https, "rebind.example")
        /\ Len(getaddrinfo("rebind.example").addrs) = 2
        /\ is_private_ip(getaddrinfo("rebind.example").addrs[2])
        /\ ~is_private_ip(getaddrinfo("rebind.example").addrs[1])
        /\ req[r].outcome = "input_error"
        /\ req[r].user_msg # None

\* The chat ids of the chat table.
ChatIds(table) == {table[j].chat_id : j \in 1..Len(table)}

\* C20: a chat request that names an existing chat reuses it and creates no
\* chat; one that names no chat, or a chat that does not exist, creates
\* exactly one chat, owned by the requesting session, under an id no chat had;
\* the X-Chat-Id header is the id of the chat the request's messages are
\* written to; and no other step of a request changes the chat table.
C20_ChatSelection ==
    [][/\ \A r \in ReqIds :
             (req[r].pc = "get_chat" /\ req'[r].pc = "gen") =>
                 IF req[r].body.chat_id # None /\ req[r].body.chat_id \in ChatIds(chats)
                 THEN /\ chats' = chats
                      /\ req'[r].x_chat_id = req[r].body.chat_id
                 ELSE /\ Len(chats') = Len(chats) + 1
                      /\ SubSeq(chats', 1, Len(chats)) = chats
                      /\ chats'[Len(chats')].session_id = req[r].x_session_id
                      /\ chats'[Len(chats')].chat_id \notin ChatIds(chats) \cup {None}
                      /\ req'[r].x_chat_id = chats'[Len(chats')].chat_id
       /\ chats' # chats => \E r \in ReqIds : req[r].pc = "get_chat" /\ req'[r].pc = "gen"
       /\ \A r \in ReqIds :
             req'[r].op = "chat" =>
                 /\ req'[r].user_msg # None =>
                       history'[req'[r].user_msg].chat_id = req'[r].x_chat_id
                 /\ req'[r].asst_msg # None =>
                       history'[req'[r].asst_msg].chat_id = req'[r].x_chat_id
                 /\ req'[r].x_chat_id # None => req'[r].x_chat_id \in ChatIds(chats')
       /\ Len(history') > Len(history) =>
             \E r \in ReqIds : history'[Len(history')].chat_id = req'[r].x_chat_id]_vars

\* A request that named a chat that does not exist, while another chat
\* existed, got a new chat and wrote its two messages to it.
C20_Witness ==
    \E r \in ReqIds :
        /\ req[r].op = "chat"
        /\ req[r].body.chat_id # None
        /\ req[r].made_chat # None
        /\ req[r].made_chat # req[r].body.chat_id
        /\ req[r].x_chat_id = req[r].made_chat
        /\ Len(chats) = 2
        /\ req[r].asst_msg # None
        /\ history[req[r].asst_msg].chat_id = req[r].made_chat

\* The number of chat uses a session gets when its requests are handled one
\* at a time.
SequentialChatUses(session_id) ==
    IF \E s \in Range(sessions) : s.session_id = session_id /\ s.reference_type = SIGNED_IN_USER
    THEN 4 ELSE 2

\* The USER rows of a mode in the chats of a session that were stored before
\* the row i.
StoredBefore(i, session_id, mode) == CountRows(SubSeq(history, 1, i - 1), session_id, mode)

\* The request passed run_validation on a ledger count that was out of date
\* when it stored its USER message: another USER message of the session was
\* stored in between.
Stale(r) ==
    /\ req[r].op = "chat"
    /\ req[r].strategy = ChatStrategy
    /\ req[r].user_msg # None
    /\ req[r].used < StoredBefore(req[r].user_msg, req[r].x_session_id, "chat")

\* C21: run_validation and the storing of the USER message are not one atomic
\* step. Two chat requests of a session that has one use left, each in a chat
\* of that session, can both pass
\* run_validation and both store a USER message, so the session ends above the
\* number of uses it gets one request at a time; the ledger goes above that
\* number only in this way, through a request that validated on a count that
\* was out of date when it stored its message.
C21_RaceWindow ==
    \A s \in {1, 2} :
        LedgerCount(s, "chat") > SequentialChatUses(s) =>
            \E r \in ReqIds : req[r].x_session_id = s /\ Stale(r)

\* Both requests of the anonymous session read the count 1, both were
\* accepted, and both stored a USER message: three chat uses instead of two.
C21_Witness ==
    /\ LedgerCount(2, "chat") = 3
    /\ LedgerCount(2, "chat") > SequentialChatUses(2)
    /\ \E r, q \in ReqIds :
          /\ r # q
          /\ req[r].x_session_id = 2 /\ req[q].x_session_id = 2
          /\ req[r].used = 1 /\ req[q].used = 1
          /\ req[r].user_msg # None /\ req[q].user_msg # None

\* The chunks of a response, joined in the order they were forwarded.
RECURSIVE Joined(_)
Joined(chunks) == IF chunks = <<>> THEN <<>> ELSE Head(chunks) \o Joined(Tail(chunks))

\* The positions of a step in the record of a request.
StepsAt(r, step) == {i \in 1..Len(req[r].steps) : req[r].steps[i] = step}

\* C22: a completed chat or image_analysis request has exactly one ASSISTANT
\* message, whose content is the chunks forwarded to the caller joined in
\* order, each provider token forwarded once and in the provider's order; the
\* message is written after the last chunk was forwarded, and while the
\* request is still streaming no ASSISTANT message answers its USER message.
C22_AssistantIsJoinedChunks ==
    \A r \in ReqIds :
        Streams(r) /\ req[r].user_msg # None =>
            /\ \A k \in 1..Len(req[r].out) : req[r].out[k] = Token(k)
            /\ Len(req[r].out) = Cardinality(StepsAt(r, "token"))
            /\ req[r].asst_msg = None => AnswersTo(req[r].user_msg) = {}
            /\ (req[r].pc = "done" /\ req[r].outcome = "ok") =>
                  /\ req[r].asst_msg # None
                  /\ AnswersTo(req[r].user_msg) = {req[r].asst_msg}
                  /\ history[req[r].asst_msg].content = Joined(req[r].out)
                  /\ history[req[r].asst_msg].chat_id = req[r].active_chat
                  /\ \A i \in StepsAt(r, "token"), j \in StepsAt(r, "asst") : i < j
                  /\ Cardinality(StepsAt(r, "asst")) = 1

\* A request completed after two chunks, and its ASSISTANT message holds the
\* two joined.
C22_Witness ==
    \E r \in ReqIds :
        /\ Streams(r)
        /\ req[r].outcome = "ok"
        /\ Len(req[r].out) = 2
        /\ req[r].asst_msg # None
        /\ history[req[r].asst_msg].content = Token(1) \o Token(2)

\* The context the claim describes: the rows of a chat with mode "chat" and
\* role USER or ASSISTANT, in creation order.
RECURSIVE ChatModeTurns(_)
ChatModeTurns(h) ==
    IF h = <<>> THEN <<>>
    ELSE IF Head(h).mode = "chat" /\ Head(h).role \in {USER, ASSISTANT}
         THEN <<[role |-> IF Head(h).role = USER THEN "user" ELSE "assistant",
                 content |-> Head(h).content]>> \o ChatModeTurns(Tail(h))
         ELSE ChatModeTurns(Tail(h))

\* C23: the context a Chat or ImageAnalysis request sends to the provider is
\* built from its own chat and holds exactly the chat's rows of mode "chat"
\* with role USER or ASSISTANT, in creation order; rows of mode "image" or
\* "image_analysis" are never in it.
C23_AsStated ==
    \A r \in ReqIds :
        (Streams(r) /\ req[r].pc = "call") =>
            req[r].model_messages = ChatModeTurns(filter_chat(history, req[r].active_chat))

\* The image inputs that stream_image_analysis has to turn away: both or
\* neither given; a URL that validate_image_url rejects; a payload without
\* the "data:" prefix that is no base64 or whose first 16 bytes are no image
\* signature for validate_image_content.
BadImageInput(image_url, image_base64) ==
    \/ image_url.kind # "none" /\ image_base64.kind # "none"
    \/ image_url.kind = "none" /\ image_base64.kind = "none"
    \/ image_url.kind # "none" /\ validate_image_url(image_url) # "ok"
    \/ /\ image_base64.kind = "raw"
       /\ \/ ~image_base64.valid
          \/ validate_image_content(SubSeq(image_base64.decoded, 1,
                 IF Len(image_base64.decoded) < 16 THEN Len(image_base64.decoded) ELSE 16))
                 = ValueError

ZaiText(data) ==
    IF data.choices.kind = "missing" \/ data.choices.items = <<>> THEN ""
    ELSE IF data.choices.items[1].message = "missing" THEN ""
    ELSE data.choices.items[1].content.text

\* C25: every successful call of the non-streaming provider yields exactly
\* one chunk, the full text of the answer, also when that text is empty or
\* the answer has no choices member; the system prompt is the first message
\* of the request.
C25_AsStated ==
    \A r \in ReqIds :
        req[r].op = "generate_response_stream" =>
            /\ req[r].model_messages[1] = [role |-> "system", content |-> master_prompt]
            /\ (req[r].pc = "done" /\ req[r].outcome = "ok") =>
                  req[r].out = <<ZaiText(req[r].result)>>

\* C26: every message stored while handling a chat request of a session is
\* stored in a chat that session owns, and the chat whose history the request
\* reads as context is a chat that session owns.
C26_AsStated ==
    \A r \in ReqIds :
        req[r].op = "chat" =>
            /\ "history" \in Range(req[r].steps) =>
                  owner_of(req[r].active_chat) = req[r].x_session_id
            /\ req[r].user_msg # None =>
                  owner_of(history[req[r].user_msg].chat_id) = req[r].x_session_id
            /\ req[r].asst_msg # None =>
                  owner_of(history[req[r].asst_msg].chat_id) = req[r].x_session_id

\* The modes that have a ledger.
LedgerModes == {"chat", "image", "image_analysis"}

\* C27: with requests handled one at a time and whatever chat ids they name,
\* every accepted request raises the ledger count of the requesting session
\* for its mode by exactly one when it stores its USER message and leaves
\* every other ledger count as it is, so that the ceilings bound the number
\* of accepted requests of a session.
C27_AsStated ==
    [][\A r \in ReqIds :
          (req[r].op = "chat" /\ req[r].user_msg = None /\ req'[r].user_msg # None) =>
              \A s \in 1..2, m \in LedgerModes :
                  LedgerCount(s, m)' =
                      LedgerCount(s, m) +
                          (IF s = req[r].x_session_id /\ m = mode_of(req[r].strategy)
                           THEN 1 ELSE 0)]_vars

\* The request stored its USER message and then failed: the provider failed,
\* the image input was turned away, or the caller disconnected.
FailedAfterUser(r) ==
    /\ req[r].op = "chat"
    /\ req[r].user_msg # None
    /\ req[r].pc = "done"
    /\ req[r].outcome \in {"provider_error", "input_error", "disconnected"}

\* C28: a request that fails after its USER message was stored has used
\* quota: the ledger count of its session for its mode is one higher than
\* the count it was validated on; and no step lowers a ledger count, since no
\* message and no chat is deleted or changed.
C28_AsStated ==
    [][/\ \A r \in ReqIds :
             FailedAfterUser(r)' =>
                 LedgerCount(req[r].x_session_id, mode_of(req[r].strategy))' = req'[r].used + 1
       /\ \A s \in 1..2, m \in LedgerModes : LedgerCount(s, m)' >= LedgerCount(s, m)
       /\ Len(history') >= Len(history) /\ SubSeq(history', 1, Len(history)) = history
       /\ Len(chats') >= Len(chats) /\ SubSeq(chats', 1, Len(chats)) = chats]_vars

\* The request is a session creation that has just returned.
CreateReturns(r) ==
    req[r].pc # "done" /\ req'[r].pc = "done" /\ req'[r].op = "create_session"

\* C29: the quota belongs to the session id, not to the identity. A session
\* row is never removed and a deactivated one never becomes active again;
\* session creation returns the id of an active row of the identity, never
\* the id of a deactivated row; a row it inserts has an id no row had, and
\* the ledger count of that id is zero for every mode, while the messages
\* stored under the identity's earlier session stay where they are.
C29_FreshSessionFreshLedger ==
    [][/\ Len(sessions') >= Len(sessions)
       /\ \A i \in 1..Len(sessions) :
             /\ sessions'[i].session_id = sessions[i].session_id
             /\ ~sessions[i].is_active => ~sessions'[i].is_active
       /\ \A r \in ReqIds :
             CreateReturns(r) =>
                 /\ \E i \in 1..Len(sessions') :
                       /\ sessions'[i].session_id = req'[r].session_id
                       /\ sessions'[i].is_active
                       /\ sessions'[i].unique_reference_id = req'[r].unique_reference_id
                 /\ \A i \in 1..Len(sessions) :
                       ~sessions[i].is_active => sessions[i].session_id # req'[r].session_id
                 /\ Len(sessions') > Len(sessions) =>
                       /\ \A i \in 1..Len(sessions) :
                             sessions[i].session_id # req'[r].session_id
                       /\ history' = history /\ chats' = chats
                       /\ \A c \in Range(chats) : c.session_id # req'[r].session_id
                       /\ \A m \in LedgerModes :
                             count_user_messages_for_session_by_mode(req'[r].session_id, m) = 0]_vars

\* The client's first session was torn down with a chat message stored under
\* it; session creation for the same identity returned a second session,
\* whose ledger is empty.
C29_Witness ==
    \E r \in ReqIds, i, j \in 1..Len(sessions) :
        /\ req[r].op = "create_session" /\ req[r].pc = "done"
        /\ req[r].session_id = sessions[j].session_id
        /\ sessions[j].is_active
        /\ ~sessions[i].is_active
        /\ sessions[i].unique_reference_id = sessions[j].unique_reference_id
        /\ sessions[i].session_id # sessions[j].session_id
        /\ count_user_messages_for_session_by_mode(sessions[i].session_id, "chat") >= 1
        /\ count_user_messages_for_session_by_mode(sessions[j].session_id, "chat") = 0

\* The rows of a role in a chat and mode.
RowsIn(chat_id, mode, role) ==
    {i \in 1..Len(history) :
        history[i].chat_id = chat_id /\ history[i].mode = mode /\ history[i].role = role}

\* C30: in every state of the history store, with requests interleaved: a
\* USER message has no previous message; the previous message of an ASSISTANT
\* message is an existing USER message of the same chat and mode; no two
\* ASSISTANT messages have the same previous message; so each chat has, in
\* each mode, at most as many ASSISTANT messages as USER messages.
C30_HistoryShape ==
    /\ \A i \in 1..Len(history) :
          /\ history[i].chat_history_id = i
          /\ history[i].role \in {USER, ASSISTANT}
          /\ history[i].role = USER => history[i].previous_message_id = None
          /\ history[i].role = ASSISTANT =>
                /\ history[i].previous_message_id \in 1..Len(history)
                /\ history[history[i].previous_message_id].role = USER
                /\ history[history[i].previous_message_id].chat_id = history[i].chat_id
                /\ history[history[i].previous_message_id].mode = history[i].mode
    /\ \A i, j \in 1..Len(history) :
          (/\ i # j
           /\ history[i].role = ASSISTANT
           /\ history[j].role = ASSISTANT) =>
              history[i].previous_message_id # history[j].previous_message_id
    /\ \A c \in Range(chats), m \in LedgerModes :
          Cardinality(RowsIn(c.chat_id, m, ASSISTANT)) <= Cardinality(RowsIn(c.chat_id, m, USER))

\* Two requests interleaved in one chat both completed: two USER messages
\* stored first, then the two ASSISTANT messages, each naming its own.
C30_Witness ==
    /\ Len(history) = 4
    /\ history[1].role = USER /\ history[2].role = USER
    /\ history[3].role = ASSISTANT /\ history[4].role = ASSISTANT
    /\ history[1].chat_id = history[2].chat_id
    /\ {history[3].previous_message_id, history[4].previous_message_id} = {1, 2}

====
